---------------------------- MODULE Spec2Model ----------------------------
(***************************************************************************)
(* A model of the calwatch daemon's event + alert engine: the event model  *)
(* (storage/event.go), the calendar registry, the in-memory event store,   *)
(* the minute based alert scheduler with its AlertManager loop             *)
(* (alerts/scheduler.go), the persisted daemon state and the handlers of   *)
(* cmd/calwatch/main.go.                                                   *)
(*                                                                         *)
(* Time is an integer count of clock units.  A minute is Minute units and  *)
(* a day is Day units, so that instants inside a minute and alerts that    *)
(* lie days before their event both fit into a small state space.  All     *)
(* instants are UTC: time.Truncate works on absolute time.                 *)
(***************************************************************************)
EXTENDS Integers, Sequences, FiniteSets, TLC

\* ------------------------------------------------------------------ time
\* Clock units per minute (time.Minute, scaled).
Minute == 2

\* Minutes per day (24 * time.Hour, scaled).
MinutesPerDay == 2

Day == MinutesPerDay * Minute

\* The instant the daemon starts at: just before the first midnight.
ClockStart == Day - 1

\* The last instant the model clock reaches.
MaxTime == 2 * Day

\* The number of CalendarEvent objects the parser creates in one run.
MaxObjs == 2

\* The zero time.Time, for which IsZero() holds.
ZeroTime == 0

\* t.Truncate(d)
Truncate(t, d) == t - (t % d)

Max(a, b) == IF a >= b THEN a ELSE b

RECURSIVE SeqToSet(_)
SeqToSet(s) == IF s = <<>> THEN {} ELSE {Head(s)} \cup SeqToSet(Tail(s))

\* The elements of a finite set of integers in ascending order.
RECURSIVE SortedSeq(_)
SortedSeq(S) ==
    IF S = {} THEN <<>>
    ELSE LET m == CHOOSE x \in S : \A y \in S : x <= y
         IN  <<m>> \o SortedSeq(S \ {m})

\* ---------------------------------------------------------------- alerts
AlertSourceConfig == "config"
AlertSourceVALARM == "valarm"

AlertPending == "pending"
AlertSent == "sent"

\* storage.Alert (the description and the action play no part here).
Alert(offset, important, source) ==
    [Offset |-> offset, Important |-> important, Source |-> source]

\* config.AlertConfig
AlertConfig(value, unit, important) ==
    [Value |-> value, Unit |-> unit, Important |-> important]

\* AlertConfig.Duration, for the units the configurations here use.
Duration(a) == IF a.Unit = "days" THEN a.Value * Day ELSE a.Value * Minute

\* The first pass of DeduplicateAlerts: the alerts of one source whose offset
\* has not been seen, in order.
RECURSIVE DedupPass(_, _, _, _)
DedupPass(alerts, source, seen, unique) ==
    IF alerts = <<>> THEN [seen |-> seen, unique |-> unique]
    ELSE LET a == Head(alerts)
         IN  IF a.Source = source /\ a.Offset \notin seen
             THEN DedupPass(Tail(alerts), source, seen \cup {a.Offset},
                            Append(unique, a))
             ELSE DedupPass(Tail(alerts), source, seen, unique)

\* The second pass without the offsets the first pass has seen.
DedupConfigPassUnseen(alerts, p1) ==
    DedupPass(alerts, AlertSourceConfig, {}, p1.unique).unique

\* The second pass: the config alerts whose offset no VALARM alert has.
DedupConfigPass(alerts, p1) ==
    DedupPass(alerts, AlertSourceConfig, p1.seen, p1.unique).unique

DeduplicateAlerts(alerts) ==
    DedupConfigPass(alerts, DedupPass(alerts, AlertSourceVALARM, {}, <<>>))

\* ------------------------------------------------------------ recurrence
FreqNone == "none"
FreqDaily == "daily"
FreqWeekly == "weekly"

\* No UNTIL / no COUNT (a nil pointer in the Go structs).
NoUntil == 0
NoCount == 0

\* The safety cap of DailyRecurrence.OccurredWithin.
OccurredWithinCap == 10000

NoRecurrence == [Freq |-> FreqNone, Interval |-> 1, Until |-> NoUntil, Count |-> NoCount]

NewDailyRecurrence(interval, until, count) ==
    [Freq |-> FreqDaily, Interval |-> IF interval <= 0 THEN 1 ELSE interval,
     Until |-> until, Count |-> count]

isExceptionDate(t, exDates) == t \in exDates

\* NoRecurrence.OccursOn
NoRecurrenceOccursOn(date, baseTime) ==
    Truncate(baseTime, Day) = Truncate(date, Day)

\* NoRecurrence.OccurredWithin with the end of the range left out.
NoRecurrenceOccurredWithinOpen(start, end, baseTime, exDates) ==
    IF baseTime >= start /\ baseTime < end /\ ~isExceptionDate(baseTime, exDates)
    THEN <<baseTime>> ELSE <<>>

\* NoRecurrence.OccurredWithin
NoRecurrenceOccurredWithin(start, end, baseTime, exDates) ==
    IF baseTime >= start /\ baseTime <= end /\ ~isExceptionDate(baseTime, exDates)
    THEN <<baseTime>> ELSE <<>>

\* DailyRecurrence.OccursOn
DailyOccursOn(rec, date, baseTime) ==
    LET checkDate == Truncate(date, Day)
        baseDate == Truncate(baseTime, Day)
        daysDiff == (checkDate - baseDate) \div Day
    IN  /\ checkDate >= baseDate
        /\ daysDiff % rec.Interval = 0
        /\ ~(rec.Until # NoUntil /\ checkDate > rec.Until)
        /\ ~(rec.Count # NoCount /\ (daysDiff \div rec.Interval) + 1 > rec.Count)

\* The first candidate of DailyRecurrence.OccurredWithin: the base time, fast
\* forwarded to the first interval step at or after start.
RECURSIVE DailyForward(_, _, _)
DailyForward(current, start, step) ==
    IF current < start THEN DailyForward(current + step, start, step) ELSE current

DailyFirst(rec, start, baseTime) ==
    IF start > baseTime
    THEN LET daysDiff == (start - baseTime) \div Day
             intervalStart == (daysDiff \div rec.Interval) * rec.Interval
         IN  DailyForward(baseTime + intervalStart * Day, start, rec.Interval * Day)
    ELSE baseTime

\* The loop of DailyRecurrence.OccurredWithin.
RECURSIVE DailyLoop(_, _, _, _, _, _, _)
DailyLoop(rec, current, end, baseTime, exDates, occurrenceCount, occurrences) ==
    IF current > end THEN occurrences
    ELSE IF rec.Until # NoUntil /\ current > rec.Until THEN occurrences
    ELSE IF rec.Count # NoCount
            /\ (((current - baseTime) \div Day) \div rec.Interval) + 1 > rec.Count
         THEN occurrences
    ELSE LET occ == IF isExceptionDate(current, exDates) THEN occurrences
                    ELSE Append(occurrences, current)
         IN  IF occurrenceCount + 1 > OccurredWithinCap THEN occ
             ELSE DailyLoop(rec, current + rec.Interval * Day, end, baseTime,
                            exDates, occurrenceCount + 1, occ)

DailyOccurredWithin(rec, start, end, baseTime, exDates) ==
    DailyLoop(rec, DailyFirst(rec, start, baseTime), end, baseTime, exDates, 0, <<>>)

\* The safety cap of DailyRecurrence.NextOccurrence.
NextOccurrenceCap == 1000

\* The first candidate of DailyRecurrence.NextOccurrence: the base time, or
\* the interval step after the whole days between the base time and after.
DailyNextFirst(rec, after, baseTime) ==
    IF after > baseTime
    THEN LET daysDiff == (after - baseTime) \div Day
             intervalStart == ((daysDiff \div rec.Interval) + 1) * rec.Interval
         IN  baseTime + intervalStart * Day
    ELSE baseTime

\* The loop of DailyRecurrence.NextOccurrence steps over the candidates that
\* are not after the instant asked about without counting them: the
\* candidate it holds when occurrenceCount is i.
DailyNextCandidate(rec, first, after, i) ==
    LET step == rec.Interval * Day
        skipped == IF first > after THEN 0 ELSE ((after - first) \div step) + 1
    IN  first + (skipped + i) * step

\* The exits of the loop: past until, past the count, an instant that is not
\* excluded, or the safety check after an excluded one.
DailyNextPastEnd(rec, current, baseTime) ==
    \/ rec.Until # NoUntil /\ current > rec.Until
    \/ /\ rec.Count # NoCount
       /\ (((current - baseTime) \div Day) \div rec.Interval) + 1 > rec.Count

DailyNextLeaves(rec, current, baseTime, exDates, occurrenceCount) ==
    \/ DailyNextPastEnd(rec, current, baseTime)
    \/ ~isExceptionDate(current, exDates)
    \/ occurrenceCount + 1 > NextOccurrenceCap

\* The loop of DailyRecurrence.NextOccurrence, by the first occurrenceCount
\* at which it leaves: no instant (nil) or one.
DailyNextLoop(rec, first, after, baseTime, exDates) ==
    LET last == CHOOSE i \in 0..NextOccurrenceCap :
                    /\ DailyNextLeaves(rec, DailyNextCandidate(rec, first, after, i),
                                       baseTime, exDates, i)
                    /\ \A j \in 0..(i - 1) :
                           ~DailyNextLeaves(rec, DailyNextCandidate(rec, first, after, j),
                                            baseTime, exDates, j)
        current == DailyNextCandidate(rec, first, after, last)
    IN  IF DailyNextPastEnd(rec, current, baseTime) THEN <<>>
        ELSE IF ~isExceptionDate(current, exDates) THEN <<current>>
        ELSE <<>>

\* DailyRecurrence.NextOccurrence
DailyNextOccurrence(rec, after, baseTime, exDates) ==
    DailyNextLoop(rec, DailyNextFirst(rec, after, baseTime), after, baseTime, exDates)

\* time.Weekday: Monday is 1 and Wednesday is 3 (Sunday is 0).
Monday == 1
Wednesday == 3
DaysPerWeek == 7
Week == DaysPerWeek * Day

\* A year of AddDate(1, 0, 0), in days.
Year == 365 * Day

\* The safety cap of WeeklyRecurrence.OccurredWithin and NextOccurrence.
WeeklyCap == 1000

\* time.Time.Weekday: the instant 0 lies on a Monday.
Weekday(t) == ((t \div Day) + Monday) % DaysPerWeek

NewWeeklyRecurrence(interval, byDay, until, count) ==
    [Freq |-> FreqWeekly, Interval |-> IF interval <= 0 THEN 1 ELSE interval,
     ByDay |-> byDay, Until |-> until, Count |-> count]

\* dayOffset := int(weekday - time.Monday), and 7 more for a Sunday.
dayOffset(weekday) ==
    IF weekday - Monday < 0 THEN weekday - Monday + DaysPerWeek ELSE weekday - Monday

\* getWeekStart: the Monday of the week of the date.
getWeekStart(date) == date - dayOffset(Weekday(date)) * Day

\* targetWeekdays: ByDay, or the weekday of the base time.
targetWeekdays(rec, baseTime) ==
    IF rec.ByDay = <<>> THEN <<Weekday(baseTime)>> ELSE rec.ByDay

\* The inner loop of countOccurrencesUntil over the weekdays of one week: it
\* returns at the first candidate after untilDate.
RECURSIVE countWeek(_, _, _, _, _)
countWeek(days, weekStart, untilDate, baseDate, count) ==
    IF days = <<>> THEN [returned |-> FALSE, count |-> count]
    ELSE LET candidate == weekStart + dayOffset(Head(days)) * Day
         IN  IF candidate > untilDate THEN [returned |-> TRUE, count |-> count]
             ELSE countWeek(Tail(days), weekStart, untilDate, baseDate,
                            IF candidate >= baseDate THEN count + 1 ELSE count)

\* The outer loop of countOccurrencesUntil over the interval weeks.
RECURSIVE countWeeks(_, _, _, _, _, _)
countWeeks(rec, days, weekStart, untilDate, baseDate, count) ==
    LET w == countWeek(days, weekStart, untilDate, baseDate, count)
        next == weekStart + rec.Interval * Week
    IN  IF w.returned THEN w.count
        ELSE IF next > untilDate + Year THEN w.count
        ELSE countWeeks(rec, days, next, untilDate, baseDate, w.count)

\* WeeklyRecurrence.countOccurrencesUntil
countOccurrencesUntil(rec, untilDate, baseTime) ==
    countWeeks(rec, targetWeekdays(rec, baseTime),
               getWeekStart(Truncate(baseTime, Day)), untilDate,
               Truncate(baseTime, Day), 0)

\* WeeklyRecurrence.OccursOn
WeeklyOccursOn(rec, date, baseTime) ==
    LET checkDate == Truncate(date, Day)
        baseDate == Truncate(baseTime, Day)
        days == targetWeekdays(rec, baseTime)
        weeksDiff == (checkDate - baseDate) \div Week
    IN  /\ checkDate >= baseDate
        /\ \E i \in 1..Len(days) : days[i] = Weekday(checkDate)
        /\ weeksDiff % rec.Interval = 0
        /\ ~(rec.Until # NoUntil /\ checkDate > rec.Until)
        /\ ~(rec.Count # NoCount
               /\ countOccurrencesUntil(rec, checkDate, baseTime) > rec.Count)

\* The week WeeklyRecurrence.OccurredWithin starts with: the week of the
\* base date, or the interval week at or before the start date.
WeeklyFirst(rec, start, baseTime) ==
    LET baseDate == Truncate(baseTime, Day)
        startDate == Truncate(start, Day)
    IN  getWeekStart(
            IF startDate > baseDate
            THEN LET weeksDiff == (startDate - baseDate) \div Week
                     intervalStart == (weeksDiff \div rec.Interval) * rec.Interval
                 IN  baseDate + intervalStart * Week
            ELSE baseDate)

\* The inner loop of WeeklyRecurrence.OccurredWithin over the weekdays of
\* one week: the candidate of a weekday is the midnight of that day.
RECURSIVE WeeklyWeek(_, _, _, _, _, _, _, _)
WeeklyWeek(rec, days, weekStart, start, end, baseTime, exDates, occurrences) ==
    IF days = <<>> THEN occurrences
    ELSE LET candidate == weekStart + dayOffset(Head(days)) * Day
             keep ==
                 /\ ~(candidate < start \/ candidate > end)
                 /\ ~(candidate < Truncate(baseTime, Day))
                 /\ ~(rec.Until # NoUntil /\ candidate > rec.Until)
                 /\ ~(rec.Count # NoCount
                        /\ countOccurrencesUntil(rec, candidate, baseTime) > rec.Count)
                 /\ ~isExceptionDate(candidate, exDates)
         IN  WeeklyWeek(rec, Tail(days), weekStart, start, end, baseTime, exDates,
                        IF keep THEN Append(occurrences, candidate) ELSE occurrences)

\* The outer loop of WeeklyRecurrence.OccurredWithin.
RECURSIVE WeeklyLoop(_, _, _, _, _, _, _, _, _)
WeeklyLoop(rec, days, weekStart, start, end, baseTime, exDates, occurrenceCount, occurrences) ==
    LET occ == WeeklyWeek(rec, days, weekStart, start, end, baseTime, exDates,
                          occurrences)
        next == weekStart + rec.Interval * Week
    IN  IF next > end + Week THEN occ
        ELSE IF occurrenceCount + 1 > WeeklyCap THEN occ
        ELSE WeeklyLoop(rec, days, next, start, end, baseTime, exDates,
                        occurrenceCount + 1, occ)

\* WeeklyRecurrence.OccurredWithin
WeeklyOccurredWithin(rec, start, end, baseTime, exDates) ==
    WeeklyLoop(rec, targetWeekdays(rec, baseTime), WeeklyFirst(rec, start, baseTime),
               start, end, baseTime, exDates, 0, <<>>)

\* Recurrence.OccursOn / Recurrence.OccurredWithin, by frequency.
RecurrenceOccursOn(rec, date, baseTime) ==
    IF rec.Freq = FreqDaily THEN DailyOccursOn(rec, date, baseTime)
    ELSE IF rec.Freq = FreqWeekly THEN WeeklyOccursOn(rec, date, baseTime)
    ELSE NoRecurrenceOccursOn(date, baseTime)

RecurrenceOccurredWithin(rec, start, end, baseTime, exDates) ==
    IF rec.Freq = FreqDaily THEN DailyOccurredWithin(rec, start, end, baseTime, exDates)
    ELSE IF rec.Freq = FreqWeekly
         THEN WeeklyOccurredWithin(rec, start, end, baseTime, exDates)
    ELSE NoRecurrenceOccurredWithin(start, end, baseTime, exDates)


\* ----------------------------------------------------------------- state
VARIABLES
    clock,              \* time.Now()
    heap,               \* the CalendarEvent objects created so far, by address
    events,             \* MemoryEventStorage.events: UID -> object
    dailyIndex,         \* MemoryEventStorage.dailyIndex: day -> objects
    fileToUID,          \* MemoryEventStorage.fileToUID
    uidToFile,          \* MemoryEventStorage.uidToFile
    currentIndexDate,   \* MemoryEventStorage.currentIndexDate
    calendars,          \* the Calendar objects, by path
    directoryConfigs,   \* MinuteBasedScheduler.directoryConfigs
    hasStateManager,    \* MinuteBasedScheduler.stateManager != nil
    lastCheckTime,      \* MinuteBasedScheduler.lastCheckTime
    lastAlertTick,      \* XDGStateManager.state.LastAlertTick
    stateFile,          \* the LastAlertTick held by the state file on disk
    alertChan,          \* AlertManager.alertChan: the queued batches
    timerAt,            \* the instant the timer of AlertManager.run fires
    pc,                 \* the position of the AlertManager.run goroutine
    tickNow,            \* CheckAlerts: now
    tickLast,           \* CheckAlerts: lastTick
    allEvents,          \* CheckAlerts: allEvents
    alertRequests,      \* run: alertRequests
    parserMenu,         \* the VEVENTs the calendar files can hold
    horizon,            \* the last instant of the run
    notified,           \* history: the occurrences handed to the notifier
    notifiedTwice,      \* history: the occurrences handed to it more than once
    dropped,            \* history: the requests discarded on a full channel
    emitted,            \* history: every request CheckAlerts has returned
    enumSnaps,          \* history: the event maps seen during one enumeration
    enumConsistent,     \* history: the last enumeration matched one of them
    tickStore,          \* history: the event map when the tick started
    tickFile,           \* history: the state file when the tick started
    missed,             \* history: due alerts the last tick did not emit
    runs,               \* history: the last two direct CheckAlerts runs
    wakeupHandling,     \* config.WakeupHandling
    missedAlerts,       \* history: the requests handleWakeupDetection sent
    elapsed,            \* the time catch-up spent on each event, in milliseconds
    gap,                \* history: the gap handleWakeupDetection detected
    query,              \* a call of a function of the storage package
    reply,              \* what the call returned
    files,              \* the watched directory: file name -> the UIDs of its VEVENTs
    origin,             \* history: UID -> the file whose change stored the event
    calendarEvents,     \* Calendar.events: path -> the UIDs the calendar holds
    fs,                 \* the state directory: the state file and its temp sibling
    stateVersion,       \* XDGStateManager.state.Version
    savePc,             \* the position of the state manager inside saveLocked
    saveLog,            \* history: the calls of the state manager, in order
    stopPc,             \* the position of CalWatch.Stop
    consumer,           \* the position of the processAlerts goroutine
    stopSnap,           \* history: what Stop found when it saved the state
    notifier,           \* the notification backend: "up" or "down"
    sends,              \* history: the calls of SendNotification, in order
    alertHistory,       \* AdvancedAlertScheduler.alertHistory: key -> last sent
    suppressed,         \* history: the requests the alert history filtered out
    isRunning,          \* AlertManager.isRunning
    loops,              \* the run goroutines Start has launched, in order
    stopChan,           \* AlertManager.stopChan: "open" or "closed"
    alertChanState,     \* AlertManager.alertChan: "open" or "closed"
    panics,             \* the run-time panics raised
    lastCall,           \* history: the last Start or Stop and what it returned
    getters             \* the calls of GetEventsForDay in progress or returned

storeVars == <<events, dailyIndex, fileToUID, uidToFile, currentIndexDate>>
configVars == <<calendars, directoryConfigs, hasStateManager, parserMenu, horizon,
                wakeupHandling>>
wakeVars == <<missedAlerts, gap, elapsed>>
callVars == <<query, reply>>
fileVars == <<files, origin, calendarEvents>>
diskVars == <<fs, stateVersion, savePc, saveLog>>
stopVars == <<stopPc, consumer, stopSnap>>
notifyVars == <<notifier, sends>>
memoVars == <<alertHistory, suppressed>>
managerVars == <<isRunning, loops, stopChan, alertChanState, panics, lastCall>>
apiVars == <<notifyVars, memoVars, managerVars, getters>>
stateVars == <<lastCheckTime, lastAlertTick, stateFile>>
tickVars == <<timerAt, pc, tickNow, tickLast, allEvents, alertRequests>>
histVars == <<notified, notifiedTwice, dropped, emitted, enumSnaps,
              enumConsistent, tickStore, tickFile, missed, runs>>
vars == <<clock, heap, storeVars, configVars, stateVars, tickVars, alertChan,
          histVars, wakeVars, callVars, fileVars, diskVars, stopVars, apiVars>>

\* A map with no key (a Go map after make).
EmptyMap == [x \in {} |-> 0]

MapPut(m, k, v) == [x \in (DOMAIN m) \cup {k} |-> IF x = k THEN v ELSE m[x]]

MapDelete(m, k) == [x \in (DOMAIN m) \ {k} |-> m[x]]

\* ----------------------------------------------------------- event model
\* NewCalendarEvent: the event's fields and an empty alertStates map.  An
\* event as the parser describes it is the record without alertStates.
NewCalendarEvent(v) ==
    [UID |-> v.UID, StartTime |-> v.StartTime, EndTime |-> v.EndTime,
     Recurrence |-> v.Recurrence, ExDates |-> v.ExDates,
     Calendar |-> v.Calendar, IntrinsicAlerts |-> v.IntrinsicAlerts,
     alertStates |-> EmptyMap]

\* The nil *Calendar.
NoCalendar == "nil"

\* Calendar.GetAutomaticAlerts
CalendarGetAutomaticAlerts(path) == calendars[path].AutomaticAlerts

\* CalendarEvent.GetAllAlerts
GetAllAlerts(e) ==
    DeduplicateAlerts(
        e.IntrinsicAlerts \o
        (IF e.Calendar # NoCalendar /\ e.Calendar \in DOMAIN calendars
         THEN CalendarGetAutomaticAlerts(e.Calendar) ELSE <<>>))

AlertOffsets(alerts) == {alerts[i].Offset : i \in 1..Len(alerts)}

\* CalendarEvent.getMaxAlertOffset
RECURSIVE MaxOffsetOf(_, _)
MaxOffsetOf(alerts, maxOffset) ==
    IF alerts = <<>> THEN maxOffset
    ELSE MaxOffsetOf(Tail(alerts),
                     IF Head(alerts).Offset > maxOffset THEN Head(alerts).Offset
                     ELSE maxOffset)

getMaxAlertOffset(e) == MaxOffsetOf(GetAllAlerts(e), 0)

\* CalendarEvent.getEventOccurrences (and OccurredWithin, which is the same code)
getEventOccurrences(e, start, end) ==
    RecurrenceOccurredWithin(e.Recurrence, start, end, e.StartTime, e.ExDates)

\* The loops of occurrencesWithin: an AlertOccurrence for every occurrence
\* and alert whose alert time lies in (start, end].
AlertOccurrences(allAlerts, eventOccurrences, start, end) ==
    { [EventTime |-> eventOccurrences[p[1]],
       AlertTime |-> eventOccurrences[p[1]] - allAlerts[p[2]].Offset,
       Offset |-> allAlerts[p[2]].Offset,
       Important |-> allAlerts[p[2]].Important,
       Late |-> eventOccurrences[p[1]] - allAlerts[p[2]].Offset < end - Minute] :
      p \in { q \in (1..Len(eventOccurrences)) \X (1..Len(allAlerts)) :
                 /\ eventOccurrences[q[1]] - allAlerts[q[2]].Offset > start
                 /\ eventOccurrences[q[1]] - allAlerts[q[2]].Offset <= end } }

\* CalendarEvent.occurrencesWithin
occurrencesWithin(e, start, end) ==
    AlertOccurrences(GetAllAlerts(e),
                     getEventOccurrences(e, start, end + getMaxAlertOffset(e)),
                     start, end)

\* CalendarEvent.eventOccursOn
eventOccursOn(e, date) ==
    /\ RecurrenceOccursOn(e.Recurrence, date, e.StartTime)
    /\ ~isExceptionDate(e.StartTime, e.ExDates)

\* CalendarEvent.OccursOn
OccursOn(e, date) ==
    \/ eventOccursOn(e, date)
    \/ /\ GetAllAlerts(e) # <<>>
       /\ LET dayStart == Truncate(date, Day)
              dayEnd == dayStart + Day
          IN  \E occ \in occurrencesWithin(e, dayStart, dayEnd + getMaxAlertOffset(e)) :
                  occ.AlertTime > dayStart /\ occ.AlertTime < dayEnd

\* CalendarEvent.GetAlertState
GetAlertState(e, alertOffset) ==
    IF alertOffset \in DOMAIN e.alertStates THEN e.alertStates[alertOffset]
    ELSE AlertPending

\* CalendarEvent.SetAlertState
SetAlertState(e, alertOffset, state) ==
    [e EXCEPT !.alertStates = MapPut(e.alertStates, alertOffset, state)]

\* The event times among occ whose alert at alertOffset falls into
\* (lastTick, now].
DueAmong(occ, lastTick, now, alertOffset) ==
    { occ[i] : i \in { k \in 1..Len(occ) :
                         occ[k] - alertOffset > lastTick /\ occ[k] - alertOffset <= now } }

DueEventTimes(e, lastTick, now, alertOffset) ==
    DueAmong(getEventOccurrences(e, lastTick, now + alertOffset), lastTick, now,
             alertOffset)

\* CalendarEvent.ShouldAlert(lastTick, now, alertOffset): the alert at this
\* offset is pending and an occurrence's alert time lies in (lastTick, now].
ShouldAlert(e, lastTick, now, alertOffset) ==
    /\ GetAlertState(e, alertOffset) = AlertPending
    /\ DueEventTimes(e, lastTick, now, alertOffset) # {}

\* ----------------------------------------------------------- event store
\* The days regenerateIndexLocked indexes.
IndexDays == 7

\* The fields of MemoryEventStorage that the operations below rewrite.
Store == [events |-> events, dailyIndex |-> dailyIndex, fileToUID |-> fileToUID,
          uidToFile |-> uidToFile, currentIndexDate |-> currentIndexDate]

\* formatDateKey: the calendar date of an instant.
formatDateKey(date) == Truncate(date, Day)

\* The objects of an event map that occur on a date, as the index lists them
\* (Go's map order is arbitrary; the model lists them by address).
DayEvents(h, evts, indexDate) ==
    SortedSeq({ evts[u] : u \in { x \in DOMAIN evts : OccursOn(h[evts[x]], indexDate) } })

\* A day has a key in the index only when an event was appended to it.
IndexedDays(idx) == [d \in { x \in DOMAIN idx : idx[x] # <<>> } |-> idx[d]]

\* MemoryEventStorage.regenerateIndexLocked
regenerateIndexLocked(st, h, now) ==
    LET baseDate == IF st.currentIndexDate = ZeroTime THEN Truncate(now, Day)
                    ELSE st.currentIndexDate
    IN  [st EXCEPT !.dailyIndex =
            IndexedDays([d \in { baseDate + i * Day : i \in 0..(IndexDays - 1) } |->
                            DayEvents(h, st.events, d)])]

\* MemoryEventStorage.RegenerateIndex
RegenerateIndex(st, h, date, now) ==
    regenerateIndexLocked([st EXCEPT !.currentIndexDate = Truncate(date, Day)], h, now)

\* The filename of UpsertEvent, which tracks no file.
NoFile == ""

\* MemoryEventStorage.UpsertEventWithFile
UpsertEventWithFile(st, h, id, filename, now) ==
    LET uid == h[id].UID
        f1 == IF uid \in DOMAIN st.uidToFile /\ st.uidToFile[uid] # NoFile
              THEN MapDelete(st.fileToUID, st.uidToFile[uid]) ELSE st.fileToUID
        u2 == IF filename # NoFile /\ filename \in DOMAIN f1
              THEN MapDelete(st.uidToFile, f1[filename]) ELSE st.uidToFile
    IN  regenerateIndexLocked(
            [st EXCEPT !.events = MapPut(st.events, uid, id),
                       !.fileToUID = IF filename # NoFile THEN MapPut(f1, filename, uid)
                                     ELSE f1,
                       !.uidToFile = IF filename # NoFile THEN MapPut(u2, uid, filename)
                                     ELSE u2],
            h, now)

\* MemoryEventStorage.UpsertEvent
UpsertEvent(st, h, id, now) == UpsertEventWithFile(st, h, id, NoFile, now)

\* MemoryEventStorage.DeleteEvent
DeleteEvent(st, h, uid, now) ==
    regenerateIndexLocked(
        [st EXCEPT !.fileToUID = IF uid \in DOMAIN st.uidToFile
                                 THEN MapDelete(st.fileToUID, st.uidToFile[uid])
                                 ELSE st.fileToUID,
                   !.uidToFile = MapDelete(st.uidToFile, uid),
                   !.events = MapDelete(st.events, uid)],
        h, now)

\* MemoryEventStorage.DeleteEventByFile
DeleteEventByFile(st, h, filename, now) ==
    IF filename \notin DOMAIN st.fileToUID THEN st
    ELSE regenerateIndexLocked(
             [st EXCEPT !.fileToUID = MapDelete(st.fileToUID, filename),
                        !.uidToFile = MapDelete(st.uidToFile, st.fileToUID[filename]),
                        !.events = MapDelete(st.events, st.fileToUID[filename])],
             h, now)

\* MemoryEventStorage.UpdateCalendarAlerts, through
\* Calendar.UpdateAutomaticAlerts: the calendar's list is replaced; the
\* storage is not touched.
UpdateCalendarAlerts(cals, path, automaticAlerts) ==
    IF path \in DOMAIN cals
    THEN [cals EXCEPT ![path].AutomaticAlerts = automaticAlerts]
    ELSE cals

\* The bucket of a date in the index.
Bucket(st, dateKey) ==
    [store |-> st,
     result |-> IF dateKey \in DOMAIN st.dailyIndex THEN st.dailyIndex[dateKey]
                ELSE <<>>]

\* MemoryEventStorage.GetEventsForDay: the store after the call (the index is
\* regenerated when the date is not the indexed one) and the bucket returned.
GetEventsForDay(st, h, date, now) ==
    Bucket(IF st.currentIndexDate # Truncate(date, Day)
           THEN RegenerateIndex(st, h, date, now) ELSE st,
           formatDateKey(date))

\* ------------------------------------------------------------- scheduler
\* The capacity of AlertManager.alertChan.
AlertChanCap == 10

\* The (directory config, alert config) pairs in the order checkEventAlerts
\* walks them: the template of the directory and the Duration() of the alert.
RECURSIVE ConfigAlerts(_)
ConfigAlerts(configs) ==
    IF configs = <<>> THEN <<>>
    ELSE [i \in 1..Len(Head(configs).AutomaticAlerts) |->
             [Template |-> Head(configs).Template,
              Offset |-> Duration(Head(configs).AutomaticAlerts[i])]]
         \o ConfigAlerts(Tail(configs))

\* AlertRequest.  EventTime is history: the occurrence the request stands
\* for, which the Go struct does not carry.
AlertRequest(id, alertOffset, template, eventTime) ==
    [Event |-> id, AlertOffset |-> alertOffset, Template |-> template,
     EventTime |-> eventTime]

MinOf(S) == CHOOSE x \in S : \A y \in S : x <= y

\* checkEventAlertsMark without the SetAlertState call.
checkEventAlertsNoMark(e, alertOffset) == e

\* One step of the loops of checkEventAlerts: the event after the step.
checkEventAlertsMark(e, alertOffset) == SetAlertState(e, alertOffset, AlertSent)

\* MinuteBasedScheduler.checkEventAlerts for the object at address id: the
\* heap with the alert states it sets, and the requests it creates.
RECURSIVE checkEventAlertsLoop(_, _, _, _, _, _)
checkEventAlertsLoop(h, id, pairs, lastTick, now, requests) ==
    IF pairs = <<>> THEN [heap |-> h, requests |-> requests]
    ELSE LET alertOffset == Head(pairs).Offset
         IN  IF ShouldAlert(h[id], lastTick, now, alertOffset)
             THEN checkEventAlertsLoop(
                      [h EXCEPT ![id] = checkEventAlertsMark(h[id], alertOffset)],
                      id, Tail(pairs), lastTick, now,
                      Append(requests,
                             AlertRequest(id, alertOffset, Head(pairs).Template,
                                 MinOf(DueEventTimes(h[id], lastTick, now, alertOffset)))))
             ELSE checkEventAlertsLoop(h, id, Tail(pairs), lastTick, now, requests)

checkEventAlerts(h, id, lastTick, now) ==
    checkEventAlertsLoop(h, id, ConfigAlerts(directoryConfigs), lastTick, now, <<>>)

\* The loop of CheckAlerts over allEvents.
RECURSIVE CheckAlertsLoop(_, _, _, _, _)
CheckAlertsLoop(h, evts, lastTick, now, requests) ==
    IF evts = <<>> THEN [heap |-> h, requests |-> requests]
    ELSE LET r == checkEventAlerts(h, Head(evts), lastTick, now)
         IN  CheckAlertsLoop(r.heap, Tail(evts), lastTick, now, requests \o r.requests)

\* CheckAlerts: lastTick
CheckAlertsLastTick(now) ==
    LET lastTick == IF hasStateManager THEN lastAlertTick ELSE ZeroTime
    IN  IF lastTick = ZeroTime THEN now - Minute ELSE lastTick

\* ---------------------------------------------------------------- wake-up
\* DetectWakeup: wakeupThreshold
WakeupThreshold == 2 * Minute

\* MinuteBasedScheduler.DetectWakeup
DetectWakeup(now) ==
    /\ hasStateManager
    /\ lastAlertTick # ZeroTime
    /\ now - lastAlertTick > WakeupThreshold

\* MemoryEventStorage.GetEventsWithinRange: the events with an alert
\* occurrence in the range or, when they have none, an occurrence in it.
GetEventsWithinRange(h, evts, start, end) ==
    SortedSeq({ evts[u] : u \in { x \in DOMAIN evts :
        \/ occurrencesWithin(h[evts[x]], start, end) # {}
        \/ getEventOccurrences(h[evts[x]], start, end) # <<>> } })

\* MinuteBasedScheduler.checkMissedEventAlerts: a request for every
\* configured offset whose alert time for the occurrence lies after lastTick
\* and before now.
RECURSIVE checkMissedEventAlerts(_, _, _, _, _, _)
checkMissedEventAlerts(id, occurrence, lastTick, now, pairs, requests) ==
    IF pairs = <<>> THEN requests
    ELSE checkMissedEventAlerts(id, occurrence, lastTick, now, Tail(pairs),
             IF /\ occurrence - Head(pairs).Offset > lastTick
                /\ occurrence - Head(pairs).Offset < now
             THEN Append(requests, AlertRequest(id, Head(pairs).Offset,
                                                Head(pairs).Template, occurrence))
             ELSE requests)

\* The loop of CheckMissedAlerts over the occurrences of one event.
RECURSIVE MissedOfEvent(_, _, _, _, _)
MissedOfEvent(id, occurrences, lastTick, now, missed_) ==
    IF occurrences = <<>> THEN missed_
    ELSE MissedOfEvent(id, Tail(occurrences), lastTick, now,
             missed_ \o checkMissedEventAlerts(id, Head(occurrences), lastTick, now,
                                               ConfigAlerts(directoryConfigs), <<>>))

\* config.DurationConfig
DurationConfig(type, value, unit) == [Type |-> type, Value |-> value, Unit |-> unit]

\* DurationConfig.ToDuration, in milliseconds: an error for until_dismissed,
\* for a value that is not positive and for an unknown unit.
ToDuration(d) ==
    IF d.Type = "until_dismissed" THEN [err |-> TRUE, duration |-> 0]
    ELSE IF d.Value <= 0 THEN [err |-> TRUE, duration |-> 0]
    ELSE IF d.Unit \in {"milliseconds", "ms"} THEN [err |-> FALSE, duration |-> d.Value]
    ELSE IF d.Unit \in {"seconds", "s"} THEN [err |-> FALSE, duration |-> d.Value * 1000]
    ELSE IF d.Unit \in {"minutes", "m"}
         THEN [err |-> FALSE, duration |-> d.Value * 60 * 1000]
    ELSE IF d.Unit \in {"hours", "h"}
         THEN [err |-> FALSE, duration |-> d.Value * 60 * 60 * 1000]
    ELSE [err |-> TRUE, duration |-> 0]

\* CheckMissedAlerts: the catch-up time limit is exceeded after since
\* milliseconds.
CatchupExceeded(maxCatchupTime, since) ==
    /\ maxCatchupTime.Type = "timed"
    /\ ~ToDuration(maxCatchupTime).err
    /\ since > ToDuration(maxCatchupTime).duration

\* The loop of CheckMissedAlerts over eventsInRange; since is the time since
\* processStart and cost the time one event takes.
RECURSIVE MissedOfEvents(_, _, _, _, _, _, _, _, _, _)
MissedOfEvents(h, eventsInRange, missedStart, missedEnd, lastTick, now, missed_, maxCatchupTime, since, cost) ==
    IF eventsInRange = <<>> THEN missed_
    ELSE IF CatchupExceeded(maxCatchupTime, since) THEN missed_
    ELSE MissedOfEvents(h, Tail(eventsInRange), missedStart, missedEnd, lastTick, now,
             MissedOfEvent(Head(eventsInRange),
                           getEventOccurrences(h[Head(eventsInRange)], missedStart,
                                               missedEnd),
                           lastTick, now, missed_),
             maxCatchupTime, since + cost, cost)

\* MinuteBasedScheduler.applyMissedEventPolicy (without priority_only).
applyMissedEventPolicy(alerts, wakeupConfig) ==
    IF alerts = <<>> THEN alerts
    ELSE IF wakeupConfig.MissedEventPolicy = "summary"
         THEN IF Len(alerts) > wakeupConfig.SummaryThreshold
              THEN SubSeq(alerts, 1, wakeupConfig.SummaryThreshold)
              ELSE alerts
    ELSE IF wakeupConfig.MissedEventPolicy = "skip" THEN <<>>
    ELSE alerts

\* The start of the missed period: lastTick, or max_missed_days before the
\* current time when lastTick is further back.
MissedStart(lastTick, currentTime, wakeupConfig) ==
    IF currentTime - lastTick > wakeupConfig.MaxMissedDays * Day
    THEN currentTime - wakeupConfig.MaxMissedDays * Day
    ELSE lastTick

\* MinuteBasedScheduler.CheckMissedAlerts; cost is the time the loop takes for
\* one event.
CheckMissedAlerts(h, evts, lastTick, currentTime, wakeupConfig, cost) ==
    IF ~wakeupConfig.Enable \/ wakeupConfig.MissedEventPolicy = "skip" THEN <<>>
    ELSE applyMissedEventPolicy(
             MissedOfEvents(h,
                 GetEventsWithinRange(h, evts,
                     MissedStart(lastTick, currentTime, wakeupConfig), currentTime),
                 MissedStart(lastTick, currentTime, wakeupConfig), currentTime,
                 lastTick, currentTime, <<>>, wakeupConfig.MaxCatchupTime, 0, cost),
             wakeupConfig)

\* ---------------------------------------------------------- state store
\* XDGStateManager.SetLastAlertTick: the tick in memory and, through
\* saveLocked, in the state file.
SetLastAlertTick(tick) ==
    /\ lastAlertTick' = tick
    /\ stateFile' = tick

\* DaemonState
DaemonState(tick, version) == [LastAlertTick |-> tick, Version |-> version]

\* NewXDGStateManager: the version of the state format.
CurrentVersion == "0.1.0"

\* What a path of the state directory can hold: no file, a file whose data
\* was not written back before a crash (empty or truncated), bytes that are
\* not JSON, or a JSON document.
Missing == [kind |-> "missing"]
Partial == [kind |-> "partial"]
Garbage == [kind |-> "garbage"]

\* time.Time.MarshalJSON and UnmarshalJSON: the RFC 3339 text of an instant.
FormatTime(t) == [rfc3339 |-> t]
ParseTime(text) == text.rfc3339

\* json.MarshalIndent of a DaemonState.
Marshal(state) ==
    [kind |-> "json", last_alert_tick |-> FormatTime(state.LastAlertTick),
     version |-> state.Version]

\* json.Unmarshal into a DaemonState.
Unmarshal(data) ==
    IF data.kind = "json"
    THEN [err |-> FALSE,
          state |-> DaemonState(ParseTime(data.last_alert_tick), data.version)]
    ELSE [err |-> TRUE, state |-> DaemonState(ZeroTime, "")]

\* A state directory whose state file holds the data, written back to disk.
DiskHolding(data) ==
    [path |-> data, temp |-> Missing, pathSynced |-> TRUE, tempSynced |-> TRUE]

\* saveLocked: os.WriteFile(tempFile, data); nothing forces the data to disk.
WriteTemp(f, data) == [f EXCEPT !.temp = data, !.tempSynced = FALSE]

\* saveLocked: os.Rename(tempFile, filePath).
Rename(f) ==
    [f EXCEPT !.path = f.temp, !.pathSynced = f.tempSynced, !.temp = Missing,
              !.tempSynced = TRUE]

\* The kernel writes the dirty pages of both files back.
WrittenBack(f) == [f EXCEPT !.pathSynced = TRUE, !.tempSynced = TRUE]

\* The state directories a power loss can leave: the rename is on disk, and
\* a file whose data was not written back holds it or is empty or truncated;
\* the temp file, which the next save rewrites, is dropped.
AfterCrash(f) ==
    { [path |-> p, temp |-> Missing, pathSynced |-> TRUE, tempSynced |-> TRUE] :
        p \in IF f.pathSynced THEN {f.path} ELSE {f.path, Partial} }

\* Load without the fallback to the current time.
SeedTickZero(now) == ZeroTime

\* Load: the tick of a state file that is missing or cannot be decoded.
SeedTick(now) == now

\* No shutdown has saved the state.
NoSnap == [saved |-> FALSE, timerStopped |-> FALSE, inFlight |-> FALSE, queued |-> 0]

\* ---------------------------------------------------------------- history
OccurrenceKey(h, r) == <<h[r.Event].UID, r.EventTime, r.AlertOffset>>

\* The enumeration a tick makes when it reads both buckets from one event map.
EnumerationOf(h, evts, now) ==
    DayEvents(h, evts, Truncate(now, Day)) \o DayEvents(h, evts, Truncate(now, Day) + Day)

ConfigOffsets ==
    { ConfigAlerts(directoryConfigs)[i].Offset : i \in 1..Len(ConfigAlerts(directoryConfigs)) }

\* The (object, offset) pairs of the events stored from the start of the tick
\* to its end and of their own alerts that are pending and due in the window.
DueInTick(h, lastTick, now) ==
    { p \in { events[u] : u \in { x \in DOMAIN events \cap DOMAIN tickStore :
                                    events[x] = tickStore[x] } } \X ConfigOffsets :
        /\ p[2] \in AlertOffsets(GetAllAlerts(h[p[1]]))
        /\ ShouldAlert(h[p[1]], lastTick, now, p[2]) }

RequestPairs(requests) ==
    { <<requests[i].Event, requests[i].AlertOffset>> : i \in 1..Len(requests) }

\* ------------------------------------------------------------------ clock
\* Time passes.
Advance ==
    /\ clock < horizon
    /\ clock' = clock + 1
    /\ UNCHANGED <<apiVars, heap, storeVars, configVars, wakeVars, fileVars, diskVars, stopVars, callVars, stateVars, tickVars, alertChan,
                   histVars>>

\* ------------------------------------------------------- AlertManager.run
SetStore(st) ==
    /\ events' = st.events
    /\ dailyIndex' = st.dailyIndex
    /\ fileToUID' = st.fileToUID
    /\ uidToFile' = st.uidToFile
    /\ currentIndexDate' = st.currentIndexDate

\* run: the timer fires and CheckAlerts reads now, lastTick and today's bucket.
TickStart ==
    /\ pc = "wait"
    /\ clock >= timerAt
    /\ \E g \in {GetEventsForDay(Store, heap, Truncate(clock, Day), clock)} :
           /\ SetStore(g.store)
           /\ allEvents' = g.result
    /\ tickNow' = clock
    /\ tickLast' = CheckAlertsLastTick(clock)
    /\ pc' = "check"
    /\ tickStore' = events
    /\ tickFile' = stateFile
    /\ enumSnaps' = {events}
    /\ UNCHANGED <<apiVars, clock, heap, configVars, wakeVars, fileVars, diskVars, stopVars, callVars, stateVars, timerAt, alertRequests,
                   alertChan, notified, notifiedTwice, dropped, emitted,
                   enumConsistent, missed, runs>>

\* CheckAlerts reads tomorrow's bucket, checks every event, and records the
\* tick in the scheduler and in the state manager.
TickCheck ==
    /\ pc = "check"
    /\ \E g \in {GetEventsForDay(Store, heap, Truncate(tickNow, Day) + Day, tickNow)} :
           /\ SetStore(g.store)
           /\ allEvents' = allEvents \o g.result
    /\ \E r \in {CheckAlertsLoop(heap, allEvents', tickLast, tickNow, <<>>)} :
           /\ heap' = r.heap
           /\ alertRequests' = r.requests
           /\ emitted' = emitted \cup SeqToSet(r.requests)
    /\ enumConsistent' = \E s \in enumSnaps : allEvents' = EnumerationOf(heap, s, tickNow)
    /\ missed' = DueInTick(heap, tickLast, tickNow) \ RequestPairs(alertRequests')
    /\ lastCheckTime' = Truncate(tickNow, Minute)
    /\ IF hasStateManager THEN SetLastAlertTick(Truncate(tickNow, Minute))
       ELSE UNCHANGED <<apiVars, lastAlertTick, stateFile>>
    /\ pc' = "send"
    /\ enumSnaps' = {}
    /\ tickStore' = EmptyMap
    /\ UNCHANGED <<apiVars, clock, configVars, wakeVars, fileVars, diskVars, stopVars, callVars, timerAt, tickNow, tickLast, alertChan,
                   notified, notifiedTwice, dropped, tickFile, runs>>

\* run: the requests go to the channel when it has room and are discarded
\* when it is full; the timer is set to the next minute boundary.
TickSend ==
    /\ pc = "send"
    /\ IF Len(alertRequests) > 0
       THEN IF Len(alertChan) < AlertChanCap
            THEN /\ alertChan' = Append(alertChan, alertRequests)
                 /\ UNCHANGED dropped
            ELSE /\ dropped' = dropped \cup SeqToSet(alertRequests)
                 /\ UNCHANGED alertChan
       ELSE UNCHANGED <<apiVars, alertChan, dropped>>
    /\ alertRequests' = <<>>
    /\ timerAt' = Truncate(clock, Minute) + Minute
    /\ pc' = "wait"
    /\ allEvents' = <<>>
    /\ enumConsistent' = TRUE
    /\ missed' = {}
    /\ UNCHANGED <<apiVars, clock, heap, storeVars, configVars, wakeVars, fileVars, diskVars, stopVars, callVars, stateVars, tickNow,
                   tickLast, notified, notifiedTwice, emitted, enumSnaps,
                   tickStore, tickFile, runs>>

\* ------------------------------------------------- CalWatch.processAlerts
\* The occurrences of a batch, and those it holds more than once.
BatchKeys(h, batch) == { OccurrenceKey(h, batch[i]) : i \in 1..Len(batch) }

BatchRepeats(h, batch) ==
    { OccurrenceKey(h, batch[i]) : i \in { k \in 1..Len(batch) :
        \E j \in 1..Len(batch) :
            j # k /\ OccurrenceKey(h, batch[j]) = OccurrenceKey(h, batch[k]) } }

\* NotificationManager.SendNotification: every notifier is called once; the
\* error of the last one that failed is returned.
SendNotification == [err |-> notifier = "down"]

\* The calls of SendNotification that processAlerts makes for a batch, one
\* for each request, with the request's place and the state of its alert.
BatchSends(h, batch, batchNo) ==
    [i \in 1..Len(batch) |->
        [key |-> OccurrenceKey(h, batch[i]), batch |-> batchNo, index |-> i,
         err |-> SendNotification.err,
         state |-> GetAlertState(h[batch[i].Event], batch[i].AlertOffset)]]

\* processAlerts receives a batch and sends a notification for each request;
\* a failure is written to stderr.
ProcessAlerts ==
    /\ consumer = "running"
    /\ alertChan # <<>>
    /\ \E batch \in {Head(alertChan)} :
           /\ notified' = notified \cup BatchKeys(heap, batch)
           /\ notifiedTwice' = notifiedTwice \cup BatchRepeats(heap, batch)
                                 \cup (notified \cap BatchKeys(heap, batch))
           /\ sends' = sends \o BatchSends(heap, batch,
                                           IF sends = <<>> THEN 1
                                           ELSE sends[Len(sends)].batch + 1)
    /\ alertChan' = Tail(alertChan)
    /\ UNCHANGED <<notifier, memoVars, managerVars, getters, clock, heap, storeVars, configVars, wakeVars, fileVars, diskVars, stopVars, callVars, stateVars, tickVars,
                   dropped, emitted, enumSnaps, enumConsistent, tickStore,
                   tickFile, missed, runs>>

\* ------------------------------------------------ CalWatch.handleFileChange
\* A created or modified file: the parser yields its event as a new object,
\* which UpsertEvent stores; the index is then regenerated for today.
FileModified(v) ==
    /\ Len(heap) < MaxObjs
    /\ heap' = Append(heap, NewCalendarEvent(v))
    /\ \E st \in {UpsertEvent(Store, heap', Len(heap'), clock)} :
           /\ SetStore(RegenerateIndex(st, heap', Truncate(clock, Day), clock))
           /\ enumSnaps' = IF pc = "check" THEN enumSnaps \cup {st.events}
                           ELSE enumSnaps
    /\ UNCHANGED <<apiVars, clock, configVars, wakeVars, fileVars, diskVars, stopVars, callVars, stateVars, tickVars, alertChan, notified,
                   notifiedTwice, dropped, emitted, enumConsistent, tickStore,
                   tickFile, missed, runs>>

\* A deleted or renamed file: nothing is removed from the store; the index is
\* regenerated for today.
FileDeleted ==
    /\ SetStore(RegenerateIndex(Store, heap, Truncate(clock, Day), clock))
    /\ UNCHANGED <<apiVars, clock, heap, configVars, wakeVars, fileVars, diskVars, stopVars, callVars, stateVars, tickVars, alertChan,
                   histVars>>

\* ---------------------------------------------------------- configuration
\* ConvertConfigAlerts
ConvertConfigAlerts(alertConfigs) ==
    [i \in 1..Len(alertConfigs) |->
        Alert(Duration(alertConfigs[i]), alertConfigs[i].Important, AlertSourceConfig)]

\* NewCalendar
NewCalendar(path, template, automaticAlerts) ==
    [Path |-> path, Template |-> template, AutomaticAlerts |-> automaticAlerts]

\* The calendar convertGocalEvent gives every event it parses.
DefaultCalendar == ""

ParserCalendars == [p \in {DefaultCalendar} |-> NewCalendar("", "", <<>>)]

\* The calendars a caller of the storage API builds for its directories,
\* next to the parser's.
CalendarsOf(configs) ==
    [p \in { configs[i].Directory : i \in 1..Len(configs) } \cup {DefaultCalendar} |->
        IF p = DefaultCalendar THEN ParserCalendars[p]
        ELSE LET c == configs[CHOOSE i \in 1..Len(configs) : configs[i].Directory = p]
             IN  NewCalendar(p, c.Template, ConvertConfigAlerts(c.AutomaticAlerts))]

\* Two watched directories: work warns a minute and three days ahead, home
\* two minutes ahead.
DaemonConfigs ==
    << [Directory |-> "work", Template |-> "work.tpl",
        AutomaticAlerts |-> <<AlertConfig(1, "minutes", FALSE),
                              AlertConfig(3, "days", TRUE)>>],
       [Directory |-> "home", Template |-> "home.tpl",
        AutomaticAlerts |-> <<AlertConfig(2, "minutes", FALSE)>>] >>

VEvent(uid, start, rec, cal, intrinsic) ==
    [UID |-> uid, StartTime |-> start, EndTime |-> start + 1, Recurrence |-> rec,
     ExDates |-> {}, Calendar |-> cal, IntrinsicAlerts |-> intrinsic]

\* The events of a menu: a meeting just after the second midnight, the same
\* UID as a daily meeting, and a meeting at a midnight three days after the
\* first.
MenuOf(cal, intrinsic) ==
    { VEvent("u1", 2 * Day + 1, NoRecurrence, cal, <<>>),
      VEvent("u1", Day + Minute, NewDailyRecurrence(1, NoUntil, NoCount), cal, <<>>),
      VEvent("u2", 4 * Day, NoRecurrence, cal, intrinsic) }

\* The events the parser yields for the files of the work directory: each
\* has the parser's calendar, and the last a VALARM three days ahead.
DaemonMenu == MenuOf(DefaultCalendar, <<Alert(3 * Day, TRUE, AlertSourceVALARM)>>)

\* The events a caller of the storage API builds with the work calendar.
DirectMenu == MenuOf("work", <<>>)

\* config.WakeupHandlingConfig
WakeupHandlingConfig(enable, policy, maxMissedDays, summaryThreshold, maxCatchupTime) ==
    [Enable |-> enable, MissedEventPolicy |-> policy,
     MaxMissedDays |-> maxMissedDays, SummaryThreshold |-> summaryThreshold,
     MaxCatchupTime |-> maxCatchupTime]

\* DefaultConfig: wake-up handling enabled, every missed alert replayed, at
\* most thirty seconds of catch-up.
DefaultMaxMissedDays == 7
DefaultSummaryThreshold == 5
DefaultCatchupSeconds == 30
DefaultMaxCatchupTime == DurationConfig("timed", DefaultCatchupSeconds, "seconds")
DefaultWakeupHandling ==
    WakeupHandlingConfig(TRUE, "all", DefaultMaxMissedDays, DefaultSummaryThreshold,
                         DefaultMaxCatchupTime)

\* No gap detected, no call made.
NoGap == <<>>
NoCall == [op |-> "none"]

\* NewMemoryEventStorage
NewMemoryEventStorage ==
    [events |-> EmptyMap, dailyIndex |-> EmptyMap, fileToUID |-> EmptyMap,
     uidToFile |-> EmptyMap, currentIndexDate |-> ZeroTime]

\* The objects the parser creates for the events of an initial scan.
ScanHeap(scanned) == [i \in 1..Len(scanned) |-> NewCalendarEvent(scanned[i])]

\* The event map once every object of the scan has been upserted in order:
\* each UID holds the last object parsed with it.
ScanEvents(h) ==
    [u \in { h[i].UID : i \in 1..Len(h) } |->
        CHOOSE i \in 1..Len(h) :
            h[i].UID = u /\ \A k \in 1..Len(h) : h[k].UID = u => k <= i]

\* performInitialScan: every parsed event is upserted with UpsertEvent, which
\* tracks no file, then the index is regenerated for today.
performInitialScan(h, now) ==
    RegenerateIndex([NewMemoryEventStorage EXCEPT !.events = ScanEvents(h)], h,
                    Truncate(now, Day), now)

\* The state once Initialize has loaded the state file, which holds lastTick
\* (this instant on a fresh install), and Start has stored and indexed the
\* scanned events; position is where Start goes on from.
InitAt(now, lastTick, position, wakeup, configs, cals, scanned, menu, end, stateManager) ==
    /\ clock = now
    /\ calendars = cals
    /\ heap = ScanHeap(scanned)
    /\ \E st \in {performInitialScan(ScanHeap(scanned), now)} :
           /\ events = st.events
           /\ dailyIndex = st.dailyIndex
           /\ fileToUID = st.fileToUID
           /\ uidToFile = st.uidToFile
           /\ currentIndexDate = st.currentIndexDate
    /\ directoryConfigs = configs
    /\ hasStateManager = stateManager
    /\ parserMenu = menu
    /\ horizon = end
    /\ lastCheckTime = Truncate(now, Minute)
    /\ lastAlertTick = IF stateManager THEN lastTick ELSE ZeroTime
    /\ stateFile = IF stateManager THEN lastTick ELSE ZeroTime
    /\ alertChan = <<>>
    /\ timerAt = Truncate(now, Minute) + Minute
    /\ pc = position
    /\ tickNow = now
    /\ tickLast = now
    /\ allEvents = <<>>
    /\ alertRequests = <<>>
    /\ notified = {}
    /\ notifiedTwice = {}
    /\ dropped = {}
    /\ emitted = {}
    /\ enumSnaps = {}
    /\ enumConsistent = TRUE
    /\ tickStore = EmptyMap
    /\ tickFile = lastTick
    /\ missed = {}
    /\ runs = <<>>
    /\ wakeupHandling = wakeup
    /\ missedAlerts = <<>>
    /\ elapsed = 0
    /\ gap = NoGap
    /\ reply = NoCall
    /\ files = EmptyMap
    /\ origin = EmptyMap
    /\ calendarEvents = [p \in DOMAIN cals |-> {}]
    /\ stateVersion = CurrentVersion
    /\ savePc = "idle"
    /\ saveLog = <<>>
    /\ stopPc = "running"
    /\ consumer = "running"
    /\ stopSnap = NoSnap
    /\ notifier = "up"
    /\ sends = <<>>
    /\ alertHistory = EmptyMap
    /\ suppressed = {}
    /\ isRunning = FALSE
    /\ loops = <<>>
    /\ stopChan = "open"
    /\ alertChanState = "open"
    /\ panics = {}
    /\ lastCall = NoCall
    /\ getters = <<>>

\* The state once Initialize and Start have run on a fresh install whose
\* directories hold the scanned events: Load seeds the tick with now, the
\* initial scan stores the events and indexes today, no wake-up is detected
\* and run arms its timer.
InitWith(configs, cals, scanned, menu, end, stateManager) ==
    InitAt(ClockStart, ClockStart, "wait", DefaultWakeupHandling, configs, cals,
           scanned, menu, end, stateManager)

Init ==
    /\ InitWith(DaemonConfigs, ParserCalendars, <<>>, DaemonMenu, MaxTime, TRUE)
    /\ query = NoCall
    /\ fs = DiskHolding(Marshal(DaemonState(stateFile, CurrentVersion)))

Next ==
    \/ Advance
    \/ TickStart
    \/ TickCheck
    \/ TickSend
    \/ ProcessAlerts
    \/ \E v \in parserMenu : FileModified(v)
    \/ FileDeleted

Spec == Init /\ [][Next]_vars

\* ------------------------------------------------- direct use of the API
LastTwo(s) == IF Len(s) > 2 THEN Tail(s) ELSE s

\* MinuteBasedScheduler.CheckAlerts run to its return; what the caller does
\* with the requests it returns is the caller's part.
MinuteBasedCheckAlerts ==
    /\ \E g1 \in {GetEventsForDay(Store, heap, Truncate(clock, Day), clock)} :
       \E g2 \in {GetEventsForDay(g1.store, heap, Truncate(clock, Day) + Day, clock)} :
       \E r \in {CheckAlertsLoop(heap, g1.result \o g2.result,
                                 CheckAlertsLastTick(clock), clock, <<>>)} :
           /\ SetStore(g2.store)
           /\ heap' = r.heap
           /\ runs' = LastTwo(Append(runs, [last |-> CheckAlertsLastTick(clock),
                                            now |-> clock,
                                            calendars |-> calendars,
                                            requests |-> r.requests]))
    /\ lastCheckTime' = Truncate(clock, Minute)
    /\ IF hasStateManager THEN SetLastAlertTick(Truncate(clock, Minute))
       ELSE UNCHANGED <<lastAlertTick, stateFile>>
    /\ UNCHANGED <<clock, configVars, wakeVars, fileVars, diskVars, stopVars, callVars, tickVars, alertChan, notified,
                   notifiedTwice, dropped, enumSnaps, enumConsistent, tickStore,
                   tickFile, missed>>

\* The requests the run of MinuteBasedCheckAlerts in this step returns.
CheckAlertsReturned == runs'[Len(runs')].requests

\* MinuteBasedScheduler.CheckAlerts, called directly.
CheckAlerts ==
    /\ MinuteBasedCheckAlerts
    /\ emitted' = emitted \cup SeqToSet(CheckAlertsReturned)
    /\ UNCHANGED apiVars

\* MemoryEventStorage.UpsertEvent, called directly with a new event.
StoreUpsert(v) ==
    /\ Len(heap) < MaxObjs
    /\ heap' = Append(heap, NewCalendarEvent(v))
    /\ SetStore(UpsertEvent(Store, heap', Len(heap'), clock))
    /\ runs' = <<>>
    /\ UNCHANGED <<apiVars, clock, configVars, wakeVars, fileVars, diskVars, stopVars, callVars, stateVars, tickVars, alertChan, notified,
                   notifiedTwice, dropped, emitted, enumSnaps, enumConsistent,
                   tickStore, tickFile, missed>>

\* The last instant of a run of direct calls.
DirectEnd == ClockStart + 2 * Minute

\* A scheduler built with or without a state manager, as the tests build it.
InitDirect == \E stateManager \in BOOLEAN :
    /\ InitWith(DaemonConfigs, CalendarsOf(DaemonConfigs), <<>>, DirectMenu,
                DirectEnd, stateManager)
    /\ query = NoCall
    /\ fs = DiskHolding(Marshal(DaemonState(stateFile, CurrentVersion)))

NextDirect ==
    \/ Advance
    \/ CheckAlerts
    \/ \E v \in parserMenu : StoreUpsert(v)

SpecDirect == InitDirect /\ [][NextDirect]_vars

\* --------------------------------------------- direct use of the storage
\* MemoryEventStorage.DeleteEvent, called directly.
StoreDelete(uid) ==
    /\ SetStore(DeleteEvent(Store, heap, uid, clock))
    /\ runs' = <<>>
    /\ UNCHANGED <<apiVars, clock, heap, configVars, wakeVars, fileVars, diskVars, stopVars, callVars, stateVars,
                   tickVars, alertChan, notified, notifiedTwice, dropped, emitted,
                   enumSnaps, enumConsistent, tickStore, tickFile, missed>>

\* The lists a configuration reload can give the work calendar: none, and a
\* warning two minutes ahead.
ReloadedAlerts == { <<>>, <<Alert(2 * Minute, FALSE, AlertSourceConfig)>> }

\* MemoryEventStorage.UpdateCalendarAlerts, called directly.
StoreUpdateCalendarAlerts(path, automaticAlerts) ==
    /\ calendars[path].AutomaticAlerts # automaticAlerts
    /\ calendars' = UpdateCalendarAlerts(calendars, path, automaticAlerts)
    /\ UNCHANGED <<apiVars, clock, heap, storeVars, directoryConfigs, hasStateManager,
                   parserMenu, horizon, wakeupHandling, wakeVars, fileVars, diskVars, stopVars, callVars,
                   stateVars, tickVars, alertChan, histVars>>

\* MemoryEventStorage.RegenerateIndex, called directly for today.
StoreRegenerateIndex ==
    /\ SetStore(RegenerateIndex(Store, heap, Truncate(clock, Day), clock))
    /\ UNCHANGED <<apiVars, clock, heap, configVars, wakeVars, fileVars, diskVars, stopVars, callVars, stateVars,
                   tickVars, alertChan, histVars>>

\* A storage and a scheduler used through their API, with the calendars of
\* the directories and events that belong to the work calendar.
InitStore ==
    /\ InitWith(DaemonConfigs, CalendarsOf(DaemonConfigs), <<>>, DirectMenu,
                DirectEnd, TRUE)
    /\ query = NoCall
    /\ fs = DiskHolding(Marshal(DaemonState(stateFile, CurrentVersion)))

NextStore ==
    \/ Advance
    \/ CheckAlerts
    \/ \E v \in parserMenu : StoreUpsert(v)
    \/ \E uid \in { v.UID : v \in parserMenu } : StoreDelete(uid)
    \/ \E automaticAlerts \in ReloadedAlerts :
           StoreUpdateCalendarAlerts("work", automaticAlerts)
    \/ StoreRegenerateIndex

SpecStore == InitStore /\ [][NextStore]_vars

\* ------------------------------------------- calls of the event functions
\* The days a call can ask about, and the longest list of alerts it can pass.
CallDays == 5
MaxAlerts == 3

\* The events of the calls: a start just after a midnight or at one; a
\* single or a daily event, every day, every other day until the fourth
\* midnight, or twice; one of its first two instants excluded or none; the
\* parser's calendar or the work calendar; no VALARM or one.
CallEvents ==
    { NewCalendarEvent([VEvent("u1", start, rec, cal, intrinsic) EXCEPT !.ExDates = ex]) :
        start \in {Day + 1, 2 * Day},
        rec \in {NoRecurrence, NewDailyRecurrence(1, NoUntil, NoCount),
                 NewDailyRecurrence(2, 4 * Day, NoCount),
                 NewDailyRecurrence(1, NoUntil, 2)},
        ex \in {{}, {Day + 1, 2 * Day}, {2 * Day + 1, 3 * Day}},
        cal \in {DefaultCalendar, "work"},
        intrinsic \in {<<>>, <<Alert(Minute, TRUE, AlertSourceVALARM)>>,
                       <<Alert(Day, FALSE, AlertSourceVALARM)>>} }

\* The alerts of the lists passed to DeduplicateAlerts.
CallAlerts ==
    { Alert(offset, important, source) :
        offset \in {Minute, Day}, important \in BOOLEAN,
        source \in {AlertSourceConfig, AlertSourceVALARM} }

\* The daily recurrences of the calls on a recurrence: every day without an
\* end, every day until the third midnight or until the instant after it,
\* every other day until the fourth midnight; their base times, just after
\* a midnight or at one; and the excluded instants.
CallRecurrences ==
    {NewDailyRecurrence(1, NoUntil, NoCount), NewDailyRecurrence(1, 3 * Day, NoCount),
     NewDailyRecurrence(1, 3 * Day + 1, NoCount),
     NewDailyRecurrence(2, 4 * Day, NoCount)}
CallBaseTimes == {Day + 1, 2 * Day}
CallExDates == {{}, {2 * Day + 1, 3 * Day}}

\* The weekly events of the calls: a start on the second Monday just after
\* midnight or on the first Wednesday at midnight or just after it; every week or every other
\* week on the weekday of the start, or every week on Mondays and Wednesdays
\* in either order of BYDAY, without an end or twice; the first Wednesday
\* excluded or no instant; the work calendar; no VALARM or one.
CallWeeklyEvents ==
    { NewCalendarEvent([VEvent("u1", start, rec, "work", intrinsic) EXCEPT !.ExDates = ex]) :
        start \in {Week + 1, 2 * Day, 2 * Day + 1},
        rec \in {NewWeeklyRecurrence(1, <<>>, NoUntil, NoCount),
                 NewWeeklyRecurrence(2, <<>>, NoUntil, NoCount),
                 NewWeeklyRecurrence(1, <<Monday, Wednesday>>, NoUntil, 2),
                 NewWeeklyRecurrence(1, <<Wednesday, Monday>>, NoUntil, 2)},
        ex \in {{}, {2 * Day}},
        intrinsic \in {<<>>, <<Alert(Minute, TRUE, AlertSourceVALARM)>>} }

\* The ranges of the calls of OccurrencesWithin: one week or three, from the
\* first instant or from the second Monday.
CallRanges == { <<start, start + len>> : start \in {0, Week}, len \in {Week, 3 * Week} }

\* A daily rule whose first instants are excluded, one more of them than the
\* safety check of NextOccurrence lets pass.
ManyExDates == { Day + 1 + k * Day : k \in 0..NextOccurrenceCap }
CallLongQueries ==
    { [op |-> "DailyRecurrence.NextOccurrence",
       rec |-> NewDailyRecurrence(1, NoUntil, NoCount), baseTime |-> Day + 1,
       exDates |-> ex, after |-> after] :
        ex \in {ManyExDates, ManyExDates \ {Day + 1 + NextOccurrenceCap * Day}},
        after \in {0, Day + 1} }

CallQueries ==
    { [op |-> "OccursOn", e |-> e, date |-> d * Day] :
        e \in CallEvents, d \in 0..CallDays }
    \cup { [op |-> "occurrencesWithin", e |-> e, start |-> start, end |-> start + len] :
             e \in CallEvents \cup CallWeeklyEvents, start \in 0..(CallDays * Day),
             len \in 1..Minute }
    \cup { [op |-> "OccurrencesWithin", e |-> e, start |-> r[1], end |-> r[2]] :
             e \in CallEvents \cup CallWeeklyEvents, r \in CallRanges }
    \cup { [op |-> "GetAllAlerts", e |-> e] : e \in CallEvents }
    \cup CallLongQueries
    \cup { [op |-> "eventOccursOn", e |-> e, date |-> d * Day] :
             e \in CallEvents, d \in 0..CallDays }
    \cup { [op |-> "DailyRecurrence.OccursOn", rec |-> rec, baseTime |-> baseTime,
            date |-> d * Day] :
             rec \in CallRecurrences, baseTime \in CallBaseTimes, d \in 0..CallDays }
    \cup { [op |-> "DailyRecurrence.OccurredWithin", rec |-> rec,
            baseTime |-> baseTime, exDates |-> ex, start |-> start,
            end |-> start + len] :
             rec \in CallRecurrences, baseTime \in CallBaseTimes,
             ex \in CallExDates, start \in {d * Day : d \in 0..CallDays},
             len \in {Day, 2 * Day} }
    \cup { [op |-> "DailyRecurrence.NextOccurrence", rec |-> rec,
            baseTime |-> baseTime, exDates |-> ex, after |-> after] :
             rec \in CallRecurrences, baseTime \in CallBaseTimes,
             ex \in CallExDates, after \in {d * Day : d \in 0..CallDays} }
    \cup { [op |-> "DeduplicateAlerts", alerts |-> alerts] :
             alerts \in UNION { [1..n -> CallAlerts] : n \in 0..MaxAlerts } }

\* CalendarEvent.OccursOn is called.
CallOccursOn ==
    /\ query.op = "OccursOn" /\ reply = NoCall
    /\ reply' = [op |-> query.op, value |-> OccursOn(query.e, query.date)]
    /\ UNCHANGED <<apiVars, clock, heap, storeVars, configVars, stateVars, tickVars,
                   alertChan, histVars, wakeVars, fileVars, diskVars, stopVars, query>>

\* CalendarEvent.OccurrencesWithin is called.
CallOccurrencesWithin ==
    /\ query.op = "occurrencesWithin" /\ reply = NoCall
    /\ reply' = [op |-> query.op,
                 value |-> occurrencesWithin(query.e, query.start, query.end)]
    /\ UNCHANGED <<apiVars, clock, heap, storeVars, configVars, stateVars, tickVars,
                   alertChan, histVars, wakeVars, fileVars, diskVars, stopVars, query>>

\* CalendarEvent.OccurrencesWithin is called over a range of weeks.
CallOccurrencesWithinRange ==
    /\ query.op = "OccurrencesWithin" /\ reply = NoCall
    /\ reply' = [op |-> query.op,
                 value |-> occurrencesWithin(query.e, query.start, query.end)]
    /\ UNCHANGED <<apiVars, clock, heap, storeVars, configVars, stateVars, tickVars,
                   alertChan, histVars, wakeVars, fileVars, diskVars, stopVars, query>>

\* CalendarEvent.eventOccursOn is called.
CallEventOccursOn ==
    /\ query.op = "eventOccursOn" /\ reply = NoCall
    /\ reply' = [op |-> query.op, value |-> eventOccursOn(query.e, query.date)]
    /\ UNCHANGED <<apiVars, clock, heap, storeVars, configVars, stateVars, tickVars,
                   alertChan, histVars, wakeVars, fileVars, diskVars, stopVars, query>>

\* CalendarEvent.GetAllAlerts is called.
CallGetAllAlerts ==
    /\ query.op = "GetAllAlerts" /\ reply = NoCall
    /\ reply' = [op |-> query.op, value |-> GetAllAlerts(query.e)]
    /\ UNCHANGED <<apiVars, clock, heap, storeVars, configVars, stateVars, tickVars,
                   alertChan, histVars, wakeVars, fileVars, diskVars, stopVars, query>>

\* DeduplicateAlerts is called.
CallDeduplicateAlerts ==
    /\ query.op = "DeduplicateAlerts" /\ reply = NoCall
    /\ reply' = [op |-> query.op, value |-> DeduplicateAlerts(query.alerts)]
    /\ UNCHANGED <<apiVars, clock, heap, storeVars, configVars, stateVars, tickVars,
                   alertChan, histVars, wakeVars, fileVars, diskVars, stopVars, query>>

\* DailyRecurrence.OccursOn is called.
CallDailyOccursOn ==
    /\ query.op = "DailyRecurrence.OccursOn" /\ reply = NoCall
    /\ reply' = [op |-> query.op,
                 value |-> DailyOccursOn(query.rec, query.date, query.baseTime)]
    /\ UNCHANGED <<apiVars, clock, heap, storeVars, configVars, stateVars, tickVars,
                   alertChan, histVars, wakeVars, fileVars, diskVars, stopVars, query>>

\* DailyRecurrence.OccurredWithin is called.
CallDailyOccurredWithin ==
    /\ query.op = "DailyRecurrence.OccurredWithin" /\ reply = NoCall
    /\ reply' = [op |-> query.op,
                 value |-> DailyOccurredWithin(query.rec, query.start, query.end,
                                               query.baseTime, query.exDates)]
    /\ UNCHANGED <<apiVars, clock, heap, storeVars, configVars, stateVars, tickVars,
                   alertChan, histVars, wakeVars, fileVars, diskVars, stopVars, query>>

\* DailyRecurrence.NextOccurrence is called.
CallDailyNextOccurrence ==
    /\ query.op = "DailyRecurrence.NextOccurrence" /\ reply = NoCall
    /\ reply' = [op |-> query.op,
                 value |-> DailyNextOccurrence(query.rec, query.after,
                                               query.baseTime, query.exDates)]
    /\ UNCHANGED <<apiVars, clock, heap, storeVars, configVars, stateVars, tickVars,
                   alertChan, histVars, wakeVars, fileVars, diskVars, stopVars, query>>

\* One call on an event of the parser's or of the work calendar.
InitCall ==
    /\ InitWith(DaemonConfigs, CalendarsOf(DaemonConfigs), <<>>, {}, ClockStart, TRUE)
    /\ query \in CallQueries
    /\ fs = DiskHolding(Marshal(DaemonState(stateFile, CurrentVersion)))

NextCall ==
    \/ CallOccursOn
    \/ CallOccurrencesWithin
    \/ CallGetAllAlerts
    \/ CallDeduplicateAlerts
    \/ CallOccurrencesWithinRange
    \/ CallEventOccursOn
    \/ CallDailyOccursOn
    \/ CallDailyOccurredWithin
    \/ CallDailyNextOccurrence

SpecCall == InitCall /\ [][NextCall]_vars

\* ------------------------------------------------- a start after a gap
\* The time catch-up takes for one event: none to speak of, or a second more
\* than the default limit.
EventCosts == {0, DefaultCatchupSeconds * 1000 + 1000}

\* Start without handleWakeupDetection: the alert manager starts at once.
StartWithoutCatchUp ==
    /\ pc = "start"
    /\ timerAt' = Truncate(clock, Minute) + Minute
    /\ pc' = "wait"
    /\ UNCHANGED <<apiVars, clock, heap, storeVars, configVars, wakeVars, fileVars, diskVars, stopVars, callVars, stateVars,
                   tickNow, tickLast, allEvents, alertRequests, alertChan, histVars>>

\* CalWatch.handleWakeupDetection, then the rest of Start: when wake-up
\* handling is enabled and DetectWakeup reports a gap, the missed alerts are
\* computed and each is sent to the notification manager; then the alert
\* manager starts and run arms its timer.
HandleWakeupDetection ==
    /\ pc = "start"
    /\ IF wakeupHandling.Enable /\ DetectWakeup(clock)
       THEN \E cost \in EventCosts :
            \E m \in {CheckMissedAlerts(heap, events, lastAlertTick, clock,
                                        wakeupHandling, cost)} :
                /\ missedAlerts' = m
                /\ elapsed' = cost
                /\ gap' = <<lastAlertTick, clock>>
                /\ notified' = notified \cup BatchKeys(heap, m)
                /\ notifiedTwice' = notifiedTwice \cup BatchRepeats(heap, m)
       ELSE UNCHANGED <<apiVars, missedAlerts, gap, elapsed, notified, notifiedTwice>>
    /\ timerAt' = Truncate(clock, Minute) + Minute
    /\ pc' = "wait"
    /\ UNCHANGED <<apiVars, clock, heap, storeVars, configVars, callVars, stateVars,
                   fileVars, diskVars, stopVars,
                   tickNow, tickLast, allEvents, alertRequests, alertChan, dropped,
                   emitted, enumSnaps, enumConsistent, tickStore, tickFile, missed,
                   runs>>

\* The instant of the start, and the last instant of the run.
WakeStart == 3 * Day + 1
WakeEnd == WakeStart + Minute + 1

\* The state file holds a tick of three days ago, or of a minute ago.
WakeTicks == { 1, WakeStart - Minute }

\* The wake-up configurations: the default, one day of look-back, a summary
\* above five alerts or above one, no replay, and wake-up handling disabled,
\* each with the default catch-up time limit and with a limit of 0.
WakeConfigs ==
    { WakeupHandlingConfig(enable, policy, maxMissedDays, summaryThreshold,
                           DurationConfig("timed", value, "seconds")) :
        enable \in BOOLEAN, policy \in {"all", "summary", "skip"},
        maxMissedDays \in {1, DefaultMaxMissedDays},
        summaryThreshold \in {1, DefaultSummaryThreshold},
        value \in {0, DefaultCatchupSeconds} }

\* The files hold a meeting that starts as the daemon does and a daily one.
WakeScan ==
    << VEvent("u1", WakeStart, NoRecurrence, DefaultCalendar, <<>>),
       VEvent("u2", Day + Minute, NewDailyRecurrence(1, NoUntil, NoCount),
              DefaultCalendar, <<>>) >>

InitWakeup == \E lastTick \in WakeTicks : \E wakeup \in WakeConfigs :
    /\ InitAt(WakeStart, lastTick, "start", wakeup, DaemonConfigs, ParserCalendars,
              WakeScan, {}, WakeEnd, TRUE)
    /\ query = NoCall
    /\ fs = DiskHolding(Marshal(DaemonState(stateFile, CurrentVersion)))

NextWakeup ==
    \/ HandleWakeupDetection
    \/ Advance
    \/ TickStart
    \/ TickCheck
    \/ TickSend
    \/ ProcessAlerts

SpecWakeup == InitWakeup /\ [][NextWakeup]_vars

\* ------------------------------------------------------ a slow consumer
\* One directory that warns a minute ahead.
QueueConfigs ==
    << [Directory |-> "work", Template |-> "work.tpl",
        AutomaticAlerts |-> <<AlertConfig(1, "minutes", FALSE)>>] >>

\* The files hold one event for each of the coming minutes, one more than the
\* channel holds.
QueueScan ==
    [k \in 1..(AlertChanCap + 1) |->
        VEvent(ToString(k), ClockStart + 1 + k * Minute, NoRecurrence,
               DefaultCalendar, <<>>)]

\* The directory holds these files when the daemon starts and does not change.
InitQueue ==
    /\ InitWith(QueueConfigs, ParserCalendars, QueueScan, {},
                ClockStart + 1 + AlertChanCap * Minute, TRUE)
    /\ query = NoCall
    /\ fs = DiskHolding(Marshal(DaemonState(stateFile, CurrentVersion)))

NextQueue ==
    \/ Advance
    \/ TickStart
    \/ TickCheck
    \/ TickSend
    \/ ProcessAlerts

SpecQueue == InitQueue /\ [][NextQueue]_vars

\* ------------------------------------------- the advanced scheduler
\* time.Hour, scaled like the day: longer than the step of the clock, not
\* longer than a minute of the model and shorter than a day.
Hour == Minute

\* AdvancedAlertScheduler.getAlertKey: UID, start time of the event and offset.
getAlertKey(h, request) ==
    <<h[request.Event].UID, h[request.Event].StartTime, request.AlertOffset>>

\* The loop of AdvancedAlertScheduler.CheckAlerts over the requests of the
\* base scheduler: the history, the requests let through and those skipped.
RECURSIVE AdvancedFilter(_, _, _, _, _)
AdvancedFilter(h, requests, now, history, out) ==
    IF requests = <<>> THEN [history |-> history, kept |-> out.kept, skipped |-> out.skipped]
    ELSE LET request == Head(requests)
             alertKey == getAlertKey(h, request)
         IN  IF alertKey \in DOMAIN history /\ now - history[alertKey] < Hour
             THEN AdvancedFilter(h, Tail(requests), now, history,
                      [out EXCEPT !.skipped = Append(out.skipped, request)])
             ELSE AdvancedFilter(h, Tail(requests), now, MapPut(history, alertKey, now),
                      [out EXCEPT !.kept = Append(out.kept, request)])

\* AdvancedAlertScheduler.cleanupAlertHistory
cleanupAlertHistory(history, now) ==
    [k \in { x \in DOMAIN history : ~(history[x] < now - Day) } |-> history[k]]

\* AdvancedAlertScheduler.CheckAlerts, called directly. suppressed keeps for
\* each request it skipped the occurrence and whether a request for that
\* occurrence had been returned before.
AdvancedCheckAlerts ==
    /\ MinuteBasedCheckAlerts
    /\ \E f \in {AdvancedFilter(heap', CheckAlertsReturned, clock, alertHistory,
                                 [kept |-> <<>>, skipped |-> <<>>])} :
           /\ alertHistory' = cleanupAlertHistory(f.history, clock)
           /\ emitted' = emitted \cup SeqToSet(f.kept)
           /\ suppressed' = suppressed \cup
                  { [key |-> OccurrenceKey(heap', r), at |-> clock,
                     before |-> OccurrenceKey(heap', r) \in
                                    { OccurrenceKey(heap', x) : x \in emitted }] :
                    r \in SeqToSet(f.skipped) }
    /\ UNCHANGED <<notifyVars, managerVars, getters>>

\* An advanced scheduler built with or without a state manager.
InitAdvanced == \E stateManager \in BOOLEAN :
    /\ InitWith(DaemonConfigs, CalendarsOf(DaemonConfigs), <<>>, DirectMenu,
                MaxTime, stateManager)
    /\ query = NoCall
    /\ fs = DiskHolding(Marshal(DaemonState(stateFile, CurrentVersion)))

NextAdvanced ==
    \/ Advance
    \/ AdvancedCheckAlerts
    \/ \E v \in parserMenu : StoreUpsert(v)

SpecAdvanced == InitAdvanced /\ [][NextAdvanced]_vars

\* ------------------------------------------- Start and Stop of a manager
\* The calls of Start that launch a loop, and the ticks of one loop.
MaxStarts == 2
MaxTicks == 2

\* A return of Start or Stop: whether the manager was running when it was
\* called, the error it returned, whether it launched a loop and whether it
\* closed the stop channel.
ManagerCall(op, wasRunning, err, launched, closed) ==
    [op |-> op, wasRunning |-> wasRunning, err |-> err, launched |-> launched,
     closed |-> closed]

\* close(ch): closing a closed channel panics.
CloseChan(state) == IF state = "closed" THEN "panic" ELSE "closed"

\* AlertManager.Start
AmStart ==
    /\ panics = {}
    /\ IF isRunning
       THEN /\ lastCall' = ManagerCall("Start", TRUE, TRUE, FALSE, FALSE)
            /\ UNCHANGED <<isRunning, loops>>
       ELSE /\ Len(loops) < MaxStarts
            /\ isRunning' = TRUE
            /\ loops' = Append(loops, [state |-> "running", ticks |-> 0])
            /\ lastCall' = ManagerCall("Start", FALSE, FALSE, TRUE, FALSE)
    /\ UNCHANGED <<stopChan, alertChanState, panics, notifyVars, memoVars, getters,
                   clock, heap, storeVars, configVars, stateVars, tickVars, alertChan,
                   histVars, wakeVars, callVars, fileVars, diskVars, stopVars>>

\* AlertManager.Stop
AmStop ==
    /\ panics = {}
    /\ IF ~isRunning
       THEN /\ lastCall' = ManagerCall("Stop", FALSE, FALSE, FALSE, FALSE)
            /\ UNCHANGED <<isRunning, stopChan, panics>>
       ELSE /\ isRunning' = FALSE
            /\ IF CloseChan(stopChan) = "panic"
               THEN /\ panics' = panics \cup {"close of closed channel: stopChan"}
                    /\ UNCHANGED <<stopChan, lastCall>>
               ELSE /\ stopChan' = "closed"
                    /\ lastCall' = ManagerCall("Stop", TRUE, FALSE, FALSE, TRUE)
                    /\ UNCHANGED panics
    /\ UNCHANGED <<loops, alertChanState, notifyVars, memoVars, getters,
                   clock, heap, storeVars, configVars, stateVars, tickVars, alertChan,
                   histVars, wakeVars, callVars, fileVars, diskVars, stopVars>>

\* AlertManager.run, case <-timer.C of loop i: CheckAlerts returns requests
\* or none, and requests are sent on the alert channel without blocking;
\* sending on a closed channel panics.
AmRunTick(i) ==
    /\ panics = {}
    /\ loops[i].state = "running"
    /\ loops[i].ticks < MaxTicks
    /\ loops' = [loops EXCEPT ![i].ticks = @ + 1]
    /\ \E hasRequests \in BOOLEAN :
           panics' = IF hasRequests /\ alertChanState = "closed"
                     THEN panics \cup {"send on closed channel: alertChan"}
                     ELSE panics
    /\ UNCHANGED <<isRunning, stopChan, alertChanState, lastCall, notifyVars, memoVars,
                   getters, clock, heap, storeVars, configVars, stateVars, tickVars,
                   alertChan, histVars, wakeVars, callVars, fileVars, diskVars, stopVars>>

\* AlertManager.run, case <-am.stopChan of loop i: the timer is stopped, the
\* alert channel closed, and the loop returns.
AmRunStop(i) ==
    /\ panics = {}
    /\ loops[i].state = "running"
    /\ stopChan = "closed"
    /\ IF CloseChan(alertChanState) = "panic"
       THEN /\ panics' = panics \cup {"close of closed channel: alertChan"}
            /\ UNCHANGED <<alertChanState, loops>>
       ELSE /\ alertChanState' = "closed"
            /\ loops' = [loops EXCEPT ![i].state = "exited"]
            /\ UNCHANGED panics
    /\ UNCHANGED <<isRunning, stopChan, lastCall, notifyVars, memoVars,
                   getters, clock, heap, storeVars, configVars, stateVars, tickVars,
                   alertChan, histVars, wakeVars, callVars, fileVars, diskVars, stopVars>>

\* NewAlertManager(scheduler) over an empty store.
InitManager ==
    /\ InitWith(DaemonConfigs, CalendarsOf(DaemonConfigs), <<>>, {}, ClockStart, FALSE)
    /\ query = NoCall
    /\ fs = DiskHolding(Marshal(DaemonState(stateFile, CurrentVersion)))

NextManager ==
    \/ AmStart
    \/ AmStop
    \/ \E i \in DOMAIN loops : AmRunTick(i)
    \/ \E i \in DOMAIN loops : AmRunStop(i)

SpecManager == InitManager /\ [][NextManager]_vars

\* ------------------------------------------- concurrent day lookups
\* The calls of GetEventsForDay of one run, and the dates they ask for.
MaxGetters == 2
GetDates == {Day, 2 * Day}

\* A call of GetEventsForDay: where it stands, the date it asked for, the
\* bucket it returned and the events that occurred on the date when it
\* returned.
Getter(pos, date, result, occurring) ==
    [pc |-> pos, date |-> date, result |-> result, occurring |-> occurring]

\* GetEventsForDay up to the comparison of currentIndexDate, under the read
\* lock: when the date is the indexed one the bucket is read under the same
\* lock; otherwise the read lock is released.
GetBegin(date) ==
    /\ Len(getters) < MaxGetters
    /\ getters' = Append(getters,
           IF currentIndexDate = Truncate(date, Day)
           THEN Getter("done", date, Bucket(Store, formatDateKey(date)).result,
                       DayEvents(heap, events, Truncate(date, Day)))
           ELSE Getter("regenerate", date, <<>>, <<>>))
    /\ UNCHANGED <<notifyVars, memoVars, managerVars, clock, heap, storeVars,
                   configVars, stateVars, tickVars, alertChan, histVars, wakeVars,
                   callVars, fileVars, diskVars, stopVars>>

\* GetEventsForDay: s.RegenerateIndex(date), under the write lock.
GetRegenerate(i) ==
    /\ getters[i].pc = "regenerate"
    /\ SetStore(RegenerateIndex(Store, heap, getters[i].date, clock))
    /\ getters' = [getters EXCEPT ![i].pc = "read"]
    /\ UNCHANGED <<notifyVars, memoVars, managerVars, clock, heap,
                   configVars, stateVars, tickVars, alertChan, histVars, wakeVars,
                   callVars, fileVars, diskVars, stopVars>>

\* GetEventsForDay: the read lock is taken again and the bucket of the date
\* is copied and returned.
GetRead(i) ==
    /\ getters[i].pc = "read"
    /\ getters' = [getters EXCEPT ![i] =
           Getter("done", @.date, Bucket(Store, formatDateKey(@.date)).result,
                  DayEvents(heap, events, Truncate(@.date, Day)))]
    /\ UNCHANGED <<notifyVars, memoVars, managerVars, clock, heap, storeVars,
                   configVars, stateVars, tickVars, alertChan, histVars, wakeVars,
                   callVars, fileVars, diskVars, stopVars>>

\* A storage whose callers run concurrently.
InitGetters ==
    /\ InitWith(DaemonConfigs, CalendarsOf(DaemonConfigs), <<>>, DirectMenu,
                ClockStart, FALSE)
    /\ query = NoCall
    /\ fs = DiskHolding(Marshal(DaemonState(stateFile, CurrentVersion)))

NextGetters ==
    \/ \E v \in parserMenu : StoreUpsert(v)
    \/ \E uid \in { v.UID : v \in parserMenu } : StoreDelete(uid)
    \/ \E date \in GetDates : GetBegin(date)
    \/ \E i \in DOMAIN getters : GetRegenerate(i)
    \/ \E i \in DOMAIN getters : GetRead(i)

SpecGetters == InitGetters /\ [][NextGetters]_vars

\* ------------------------------------------------ a failing notifier
\* The notification backend goes away (notify-send fails, the session bus is
\* gone) or comes back.
NotifierChange ==
    /\ notifier' = IF notifier = "up" THEN "down" ELSE "up"
    /\ UNCHANGED <<sends, memoVars, managerVars, getters, clock, heap, storeVars,
                   configVars, stateVars, tickVars, alertChan, histVars, wakeVars,
                   callVars, fileVars, diskVars, stopVars>>

\* A daemon whose files hold an event for each of the coming minutes.
InitNotify ==
    /\ InitWith(QueueConfigs, ParserCalendars, QueueScan, {}, DirectEnd, TRUE)
    /\ query = NoCall
    /\ fs = DiskHolding(Marshal(DaemonState(stateFile, CurrentVersion)))

NextNotify ==
    \/ Advance
    \/ TickStart
    \/ TickCheck
    \/ TickSend
    \/ ProcessAlerts
    \/ NotifierChange

SpecNotify == InitNotify /\ [][NextNotify]_vars

\* --------------------------------------------------- a watched directory
\* The loop of handleFileChange over the events of a parsed file.
RECURSIVE UpsertAll(_, _, _, _)
UpsertAll(st, h, ids, now) ==
    IF ids = <<>> THEN st
    ELSE UpsertAll(UpsertEvent(st, h, Head(ids), now), h, Tail(ids), now)

\* The objects the parser creates for the VEVENTs of a file, after those of
\* the heap.
ParsedObjects(h, content) ==
    h \o [i \in 1..Len(content) |-> NewCalendarEvent(content[i])]

\* The most objects the parser creates in a run of file changes.
MaxWatchObjs == MaxObjs + 1

\* handleFileChange for a created or modified file that now holds the
\* VEVENTs of content: the parser yields them as new objects, UpsertEvent
\* stores each, and the index is regenerated for today.
WatchModified(f, content) ==
    /\ Len(heap) + Len(content) <= MaxWatchObjs
    /\ heap' = ParsedObjects(heap, content)
    /\ SetStore(RegenerateIndex(
           UpsertAll(Store, heap', [i \in 1..Len(content) |-> Len(heap) + i], clock),
           heap', Truncate(clock, Day), clock))
    /\ files' = MapPut(files, f, { content[i].UID : i \in 1..Len(content) })
    /\ origin' = [u \in DOMAIN origin \cup { content[i].UID : i \in 1..Len(content) } |->
                      IF \E i \in 1..Len(content) : content[i].UID = u THEN f
                      ELSE origin[u]]
    /\ UNCHANGED <<apiVars, clock, configVars, wakeVars, callVars, calendarEvents, diskVars,
                   stopVars, stateVars, tickVars, alertChan, histVars>>

\* handleFileChange for a deleted file: nothing is removed from the store;
\* the index is regenerated for today.
WatchDeleted(f) ==
    /\ f \in DOMAIN files
    /\ files' = MapDelete(files, f)
    /\ SetStore(RegenerateIndex(Store, heap, Truncate(clock, Day), clock))
    /\ UNCHANGED <<apiVars, clock, heap, configVars, wakeVars, callVars, origin, calendarEvents,
                   diskVars, stopVars, stateVars, tickVars, alertChan, histVars>>

\* The files of the watched directory and what each can hold: one or two
\* meetings, and a trip.
WatchContents(f) ==
    IF f = "meetings.ics"
    THEN { << VEvent("u1", 2 * Day + 1, NoRecurrence, DefaultCalendar, <<>>) >>,
           << VEvent("u1", 2 * Day + 1, NoRecurrence, DefaultCalendar, <<>>),
              VEvent("u2", 4 * Day, NoRecurrence, DefaultCalendar, <<>>) >> }
    ELSE { << VEvent("u3", Day + Minute, NewDailyRecurrence(1, NoUntil, NoCount),
                     DefaultCalendar, <<>>) >> }

WatchFiles == {"meetings.ics", "trip.ics"}

\* A daemon that starts on an empty directory.
InitWatch ==
    /\ InitWith(DaemonConfigs, ParserCalendars, <<>>, {}, DirectEnd, TRUE)
    /\ query = NoCall
    /\ fs = DiskHolding(Marshal(DaemonState(stateFile, CurrentVersion)))

NextWatch ==
    \/ Advance
    \/ \E f \in WatchFiles : \E content \in WatchContents(f) : WatchModified(f, content)
    \/ \E f \in WatchFiles : WatchDeleted(f)

SpecWatch == InitWatch /\ [][NextWatch]_vars

\* ------------------------------------------- file tracking of the storage
\* MemoryEventStorage.UpsertEventWithFile, called directly with a new event
\* and the file that holds it.
StoreUpsertWithFile(v, f) ==
    /\ Len(heap) < MaxObjs
    /\ heap' = Append(heap, NewCalendarEvent(v))
    /\ SetStore(UpsertEventWithFile(Store, heap', Len(heap'), f, clock))
    /\ origin' = MapPut(origin, v.UID, f)
    /\ UNCHANGED <<apiVars, clock, configVars, wakeVars, callVars, files, calendarEvents,
                   diskVars, stopVars, stateVars, tickVars, alertChan, histVars>>

\* MemoryEventStorage.DeleteEventByFile, called directly.
StoreDeleteByFile(f) ==
    /\ SetStore(DeleteEventByFile(Store, heap, f, clock))
    /\ UNCHANGED <<apiVars, clock, heap, configVars, wakeVars, callVars, fileVars, diskVars,
                   stopVars, stateVars, tickVars, alertChan, histVars>>

\* Calendar.AddEvent, called with a parsed event for the calendar it belongs to.
CalendarAddEvent(id) ==
    /\ heap[id].Calendar \in DOMAIN calendarEvents
    /\ heap[id].UID \notin calendarEvents[heap[id].Calendar]
    /\ calendarEvents' = [calendarEvents EXCEPT ![heap[id].Calendar] =
                              calendarEvents[heap[id].Calendar] \cup {heap[id].UID}]
    /\ UNCHANGED <<apiVars, clock, heap, storeVars, configVars, wakeVars, callVars, files,
                   origin, diskVars, stopVars, stateVars, tickVars, alertChan,
                   histVars>>

\* A storage used through its API, with the calendars of the directories,
\* events of the work calendar and the files that hold them.
InitFiles ==
    /\ InitWith(DaemonConfigs, CalendarsOf(DaemonConfigs), <<>>, DirectMenu,
                DirectEnd, TRUE)
    /\ query = NoCall
    /\ fs = DiskHolding(Marshal(DaemonState(stateFile, CurrentVersion)))

NextFiles ==
    \/ \E v \in parserMenu : \E f \in WatchFiles : StoreUpsertWithFile(v, f)
    \/ \E f \in WatchFiles : StoreDeleteByFile(f)
    \/ \E uid \in { v.UID : v \in parserMenu } : StoreDelete(uid)
    \/ \E id \in 1..Len(heap) : CalendarAddEvent(id)

SpecFiles == InitFiles /\ [][NextFiles]_vars

\* The same storage with callers that also upsert without a filename.
NextMaps ==
    \/ \E v \in parserMenu : \E f \in WatchFiles : StoreUpsertWithFile(v, f)
    \/ \E v \in parserMenu : StoreUpsert(v)
    \/ \E f \in WatchFiles : StoreDeleteByFile(f)
    \/ \E uid \in { v.UID : v \in parserMenu } : StoreDelete(uid)

SpecMaps == InitFiles /\ [][NextMaps]_vars

\* ------------------------------------------------------------- shutdown
\* CalWatch.Stop, first step: stateManager.Save() writes the tick in memory
\* to the state file.
StopSave ==
    /\ stopPc = "running"
    /\ stateFile' = IF hasStateManager THEN lastAlertTick ELSE stateFile
    /\ stopSnap' = [saved |-> TRUE, timerStopped |-> pc = "stopped",
                    inFlight |-> pc \in {"check", "send"}, queued |-> Len(alertChan)]
    /\ stopPc' = "saved"
    /\ UNCHANGED <<apiVars, clock, heap, storeVars, configVars, wakeVars, callVars, fileVars,
                   diskVars, lastCheckTime, lastAlertTick, tickVars, alertChan,
                   histVars, consumer>>

\* Stop: close(cw.stopChan).
StopSignal ==
    /\ stopPc = "saved"
    /\ stopPc' = "signalled"
    /\ UNCHANGED <<apiVars, clock, heap, storeVars, configVars, wakeVars, callVars, fileVars,
                   diskVars, stateVars, tickVars, alertChan, histVars, consumer,
                   stopSnap>>

\* Stop: alertManager.Stop() closes the stop channel of run, and the watcher
\* is stopped.
StopAlertManager ==
    /\ stopPc = "signalled"
    /\ stopPc' = "managerStopped"
    /\ UNCHANGED <<apiVars, clock, heap, storeVars, configVars, wakeVars, callVars, fileVars,
                   diskVars, stateVars, tickVars, alertChan, histVars, consumer,
                   stopSnap>>

\* run: between two ticks the select finds the stop channel closed; the timer
\* is stopped, the alert channel closed, and run returns.
RunExit ==
    /\ pc = "wait"
    /\ stopPc \in {"managerStopped", "waited"}
    /\ pc' = "stopped"
    /\ UNCHANGED <<apiVars, clock, heap, storeVars, configVars, wakeVars, callVars, fileVars,
                   diskVars, stateVars, timerAt, tickNow, tickLast, allEvents,
                   alertRequests, alertChan, histVars, stopVars>>

\* processAlerts: the select finds cw.stopChan closed, or the alert channel
\* closed and empty, and the goroutine returns.
ConsumerExit ==
    /\ consumer = "running"
    /\ \/ stopPc \in {"signalled", "managerStopped"}
       \/ pc = "stopped" /\ alertChan = <<>>
    /\ consumer' = "stopped"
    /\ UNCHANGED <<apiVars, clock, heap, storeVars, configVars, wakeVars, callVars, fileVars,
                   diskVars, stateVars, tickVars, alertChan, histVars, stopPc,
                   stopSnap>>

\* Stop: wg.Wait() returns once processAlerts has, and Stop returns.
StopWait ==
    /\ stopPc = "managerStopped"
    /\ consumer = "stopped"
    /\ stopPc' = "waited"
    /\ UNCHANGED <<apiVars, clock, heap, storeVars, configVars, wakeVars, callVars, fileVars,
                   diskVars, stateVars, tickVars, alertChan, histVars, consumer,
                   stopSnap>>

\* The last instant of a run that is shut down.
StopEnd == ClockStart + 2 * Minute

\* A daemon whose files hold an event for each of the coming minutes.
InitStop ==
    /\ InitWith(QueueConfigs, ParserCalendars, QueueScan, {}, DirectEnd, TRUE)
    /\ query = NoCall
    /\ fs = DiskHolding(Marshal(DaemonState(stateFile, CurrentVersion)))

NextStop ==
    \/ Advance
    \/ TickStart
    \/ TickCheck
    \/ TickSend
    \/ ProcessAlerts
    \/ StopSave
    \/ StopSignal
    \/ StopAlertManager
    \/ RunExit
    \/ ConsumerExit
    \/ StopWait

SpecStop == InitStop /\ [][NextStop]_vars

\* ------------------------------------------------------ the state manager
\* The calls and power losses of one run.
MaxOps == 4

\* The entry of a call in the log: what it found at the state file path, the
\* data it read or set out to write, and when.
LogEntry(op, data) == [op |-> op, data |-> data, found |-> fs.path.kind, now |-> clock]

\* XDGStateManager.Save, up to os.WriteFile of saveLocked.
StateSave ==
    /\ savePc = "idle"
    /\ Len(saveLog) < MaxOps
    /\ \E data \in {Marshal(DaemonState(lastAlertTick, stateVersion))} :
           /\ fs' = WriteTemp(fs, data)
           /\ saveLog' = Append(saveLog, LogEntry("Save", data))
    /\ savePc' = "rename"
    /\ UNCHANGED <<apiVars, clock, heap, storeVars, configVars, wakeVars, callVars, fileVars,
                   stopVars, stateVars, stateVersion, tickVars, alertChan, histVars>>

\* XDGStateManager.SetLastAlertTick with the current time, up to os.WriteFile
\* of saveLocked.
StateSetLastAlertTick ==
    /\ savePc = "idle"
    /\ Len(saveLog) < MaxOps
    /\ lastAlertTick' = clock
    /\ \E data \in {Marshal(DaemonState(clock, stateVersion))} :
           /\ fs' = WriteTemp(fs, data)
           /\ saveLog' = Append(saveLog, LogEntry("SetLastAlertTick", data))
    /\ savePc' = "rename"
    /\ UNCHANGED <<apiVars, clock, heap, storeVars, configVars, wakeVars, callVars, fileVars,
                   stopVars, lastCheckTime, stateFile, stateVersion, tickVars,
                   alertChan, histVars>>

\* XDGStateManager.Load: a missing file and a file that cannot be decoded
\* seed the tick with the current time and go on to saveLocked; a decoded
\* state replaces the one in memory, its tick replaced by the current time
\* when it is zero.
StateLoad ==
    /\ savePc = "idle"
    /\ Len(saveLog) < MaxOps
    /\ saveLog' = Append(saveLog, LogEntry("Load", fs.path))
    /\ IF fs.path.kind = "missing" \/ Unmarshal(fs.path).err
       THEN /\ lastAlertTick' = SeedTick(clock)
            /\ fs' = WriteTemp(fs, Marshal(DaemonState(SeedTick(clock), stateVersion)))
            /\ savePc' = "rename"
            /\ UNCHANGED stateVersion
       ELSE /\ lastAlertTick' =
                   IF Unmarshal(fs.path).state.LastAlertTick = ZeroTime THEN clock
                   ELSE Unmarshal(fs.path).state.LastAlertTick
            /\ stateVersion' = Unmarshal(fs.path).state.Version
            /\ UNCHANGED <<apiVars, fs, savePc>>
    /\ UNCHANGED <<apiVars, clock, heap, storeVars, configVars, wakeVars, callVars, fileVars,
                   stopVars, lastCheckTime, stateFile, tickVars, alertChan, histVars>>

\* saveLocked: os.Rename, and the return.
SaveRename ==
    /\ savePc = "rename"
    /\ fs' = Rename(fs)
    /\ savePc' = "idle"
    /\ UNCHANGED <<apiVars, clock, heap, storeVars, configVars, wakeVars, callVars, fileVars,
                   stopVars, stateVars, stateVersion, saveLog, tickVars, alertChan,
                   histVars>>

\* The kernel writes dirty pages back.
WriteBack ==
    /\ ~fs.pathSynced \/ ~fs.tempSynced
    /\ fs' = WrittenBack(fs)
    /\ UNCHANGED <<apiVars, clock, heap, storeVars, configVars, wakeVars, callVars, fileVars,
                   stopVars, stateVars, stateVersion, savePc, saveLog, tickVars,
                   alertChan, histVars>>

\* The machine loses power at any step, and the daemon starts again with a
\* new state manager.
PowerLoss ==
    /\ Len(saveLog) < MaxOps
    /\ fs' \in AfterCrash(fs)
    /\ saveLog' = Append(saveLog, LogEntry("PowerLoss", fs.path))
    /\ lastAlertTick' = ZeroTime
    /\ stateVersion' = CurrentVersion
    /\ savePc' = "idle"
    /\ UNCHANGED <<apiVars, clock, heap, storeVars, configVars, wakeVars, callVars, fileVars,
                   stopVars, lastCheckTime, stateFile, tickVars, alertChan, histVars>>

\* The state files a start can find: none, bytes that are not JSON, a saved
\* state, a state without version, and a state whose tick is the zero time.
StateFiles ==
    { Missing, Garbage, Marshal(DaemonState(1, CurrentVersion)),
      Marshal(DaemonState(1, "")), Marshal(DaemonState(ZeroTime, CurrentVersion)) }

\* The last instant of a run of the state manager.
StateEnd == ClockStart + 1

\* A state manager as NewXDGStateManager returns it, before any call.
InitState == \E data \in StateFiles :
    /\ InitAt(ClockStart, ZeroTime, "wait", DefaultWakeupHandling, DaemonConfigs,
              ParserCalendars, <<>>, {}, StateEnd, TRUE)
    /\ query = NoCall
    /\ fs = DiskHolding(data)

NextState ==
    \/ Advance
    \/ StateSave
    \/ StateSetLastAlertTick
    \/ StateLoad
    \/ SaveRename
    \/ WriteBack
    \/ PowerLoss

SpecState == InitState /\ [][NextState]_vars

\* ------------------------------------------------------------ properties
AlertTimeOf(r) == r.EventTime - r.AlertOffset

\* The object is the one the store holds for its UID.
Stored(id) == heap[id].UID \in DOMAIN events /\ events[heap[id].UID] = id

\* C1: each occurrence (event UID, event time, alert offset) is handed to the
\* notifier at most once, whatever the interleaving of ticks and of file
\* changes that parse the same UID again.
AtMostOncePerOccurrence == notifiedTwice = {}

\* The last two CheckAlerts calls ran over the same window, with no change to
\* the events in between.
SameWindowTwice ==
    /\ Len(runs) = 2
    /\ runs[1].last = runs[2].last
    /\ runs[1].now = runs[2].now

LastEmitted(r) ==
    ~\E q \in emitted :
        q.Event = r.Event /\ q.AlertOffset = r.AlertOffset /\ q.EventTime > r.EventTime

OccurrenceEnd(r) == r.EventTime + (heap[r.Event].EndTime - heap[r.Event].StartTime)

NextOccurrenceOf(r) == r.EventTime + heap[r.Event].Recurrence.Interval * Day

\* C3: for a recurring event whose alert at an offset was emitted by an
\* earlier tick for occurrence N, once a tick has passed the end of
\* occurrence N the state of the offset is pending again, and the tick whose
\* window holds the alert time of occurrence N+1 emits it.
RecurringStateReset ==
    pc = "send" =>
        \A r \in emitted \ SeqToSet(alertRequests) :
            ( /\ Stored(r.Event)
              /\ heap[r.Event].Recurrence.Freq = FreqDaily
              /\ OccurrenceEnd(r) < tickNow ) =>
                /\ LastEmitted(r) =>
                       GetAlertState(heap[r.Event], r.AlertOffset) = AlertPending
                /\ ( /\ NextOccurrenceOf(r) - r.AlertOffset > tickLast
                     /\ NextOccurrenceOf(r) - r.AlertOffset <= tickNow ) =>
                       \E q \in emitted :
                           /\ q.Event = r.Event
                           /\ q.AlertOffset = r.AlertOffset
                           /\ q.EventTime = NextOccurrenceOf(r)

SentOffsets(e) == { o \in DOMAIN e.alertStates : e.alertStates[o] = AlertSent }

\* C4: when an event is upserted with a UID that is already stored, every
\* offset whose state was sent before the upsert reports sent afterwards.
UpsertKeepsSent ==
    [][\A u \in DOMAIN events :
          events'[u] # events[u] =>
              \A o \in SentOffsets(heap[events[u]]) :
                  GetAlertState(heap'[events'[u]], o) = AlertSent]_vars

\* C5: within a tick, last_alert_tick is advanced in memory and in the state
\* file only after every request of the tick has been handed over: while
\* requests wait for the handoff, both still hold the value of the tick's start.
TickAdvancedAfterHandoff ==
    (pc = "send" /\ alertRequests # <<>>) =>
        (lastAlertTick = tickFile /\ stateFile = tickFile)

\* C6: for every occurrence a tick processes, its state becomes sent and its
\* request reaches the consumer, or neither: a request discarded on a full
\* channel leaves no sent state behind.
SentIffDelivered ==
    \A r \in dropped : GetAlertState(heap[r.Event], r.AlertOffset) # AlertSent

\* The requests computed and not yet handed to the notifier.
Undelivered ==
    SeqToSet(alertRequests)
        \cup UNION { SeqToSet(alertChan[i]) : i \in 1..Len(alertChan) }

\* C7: at any point of a crash, the persisted last_alert_tick is not later
\* than the alert time of an occurrence that has not been handed to the
\* notifier.
CrashReplaysUndelivered ==
    \A r \in Undelivered : stateFile <= AlertTimeOf(r)

\* C8: the enumeration of a tick (today's and tomorrow's buckets together)
\* is that of the store entirely before or entirely after each concurrent
\* upsert.
EnumerationNotTorn == enumConsistent

\* C9: a tick applies to an event only the offsets of the event's own alert
\* set: its intrinsic alerts and the automatic alerts of its calendar.
OwnAlertsOnly ==
    \A r \in emitted : r.AlertOffset \in AlertOffsets(GetAllAlerts(heap[r.Event]))

\* C10: every alert of a stored event that is pending and whose alert time
\* falls in the window of a tick is emitted by the tick.
NoDueAlertMissed == missed = {}


\* ----------------------------------------------- what the events stand for
\* The instant is one of the event's occurrences: the start of a single
\* event, or a step of the recurrence within UNTIL and COUNT; never an EXDATE.
\* An instant of a weekly rule, the count left aside: at the time of day of
\* the start, on a weekday of the rule, in an interval week, not after until.
WeeklyInstant(e, t) ==
    /\ t >= e.StartTime
    /\ (t - e.StartTime) % Day = 0
    /\ Weekday(t) \in SeqToSet(targetWeekdays(e.Recurrence, e.StartTime))
    /\ ((getWeekStart(Truncate(t, Day)) - getWeekStart(Truncate(e.StartTime, Day)))
           \div Week) % e.Recurrence.Interval = 0
    /\ e.Recurrence.Until = NoUntil \/ t <= e.Recurrence.Until

IsOccurrence(e, t) ==
    /\ t >= e.StartTime
    /\ t \notin e.ExDates
    /\ IF e.Recurrence.Freq = FreqNone THEN t = e.StartTime
       ELSE IF e.Recurrence.Freq = FreqWeekly
       THEN /\ WeeklyInstant(e, t)
            /\ \/ e.Recurrence.Count = NoCount
               \/ Cardinality({ s \in e.StartTime..t : WeeklyInstant(e, s) })
                      <= e.Recurrence.Count
       ELSE /\ (t - e.StartTime) % (e.Recurrence.Interval * Day) = 0
            /\ e.Recurrence.Until = NoUntil \/ t <= e.Recurrence.Until
            /\ \/ e.Recurrence.Count = NoCount
               \/ ((t - e.StartTime) \div (e.Recurrence.Interval * Day)) + 1
                      <= e.Recurrence.Count

\* The event has an occurrence in [lo, hi].
OccursWithin(e, lo, hi) == \E t \in lo..hi : IsOccurrence(e, t)

\* The event occurs on the day, or one of its alerts fires in
\* [start of the day, end of the day).
OccursOrFiresOn(e, day) ==
    \/ OccursWithin(e, day, day + Day - 1)
    \/ \E o \in AlertOffsets(GetAllAlerts(e)) : OccursWithin(e, day + o, day + Day - 1 + o)

\* The days of the index window.
IndexWindow == { currentIndexDate + i * Day : i \in 0..(IndexDays - 1) }

\* C11: for every day of the current window, the bucket of the day holds a
\* stored event if and only if the event occurs on the day or one of its
\* current alerts fires on it.
IndexMatchesEvents ==
    currentIndexDate # ZeroTime =>
        \A day \in IndexWindow : \A uid \in DOMAIN events :
            (events[uid] \in SeqToSet(Bucket(Store, day).result))
                <=> OccursOrFiresOn(heap[events[uid]], day)

\* C12: OccursOn(day) is true exactly when an occurrence of the event falls
\* on the day or an alert of the event fires in [start of the day, end of the
\* day), the first instant of the day included.
OccursOnExact ==
    reply.op = "OccursOn" => reply.value = OccursOrFiresOn(query.e, query.date)

\* The (event time, offset) pairs of the event whose alert time lies in
\* (last, now].
DuePairs(e, last, now) ==
    { p \in ((last + 1)..(now + getMaxAlertOffset(e))) \X AlertOffsets(GetAllAlerts(e)) :
        /\ IsOccurrence(e, p[1])
        /\ p[1] - p[2] > last
        /\ p[1] - p[2] <= now }

\* C13: for a window (last, now] of at most a minute, occurrencesWithin yields
\* exactly the (event time, offset) pairs whose alert time lies in the window
\* and whose event time is an occurrence that is not excluded.
OccurrencesWithinExact ==
    (reply.op = "occurrencesWithin" /\ query.end - query.start <= Minute) =>
        { <<o.EventTime, o.Offset>> : o \in reply.value }
            = DuePairs(query.e, query.start, query.end)

\* A daily event with an excluded instant yields an occurrence.
OccurrencesWithinWitness ==
    /\ reply.op = "occurrencesWithin"
    /\ query.e.Recurrence.Freq = FreqDaily
    /\ query.e.ExDates # {}
    /\ query.e.StartTime \in query.e.ExDates
    /\ reply.value # {}

\* The alerts of a list at an offset.
AlertsAt(alerts, offset) == { i \in 1..Len(alerts) : alerts[i].Offset = offset }

\* The list has one alert per offset, and the alert at an offset that a
\* VALARM alert of the input has is a VALARM alert.
OnePerOffset(input, output) ==
    /\ \A i \in 1..Len(output) : AlertsAt(output, output[i].Offset) = {i}
    /\ \A i \in 1..Len(input) :
           /\ Cardinality(AlertsAt(output, input[i].Offset)) = 1
           /\ input[i].Source = AlertSourceVALARM =>
                  \A k \in AlertsAt(output, input[i].Offset) :
                      output[k].Source = AlertSourceVALARM

\* C14: an alert set holds at most one alert per offset, and where a config
\* alert and a VALARM alert share an offset it holds exactly one entry at the
\* offset, whose source is the VALARM.
DedupKeepsValarm ==
    /\ reply.op = "DeduplicateAlerts" => OnePerOffset(query.alerts, reply.value)
    /\ reply.op = "GetAllAlerts" =>
           OnePerOffset(query.e.IntrinsicAlerts
                            \o CalendarGetAutomaticAlerts(query.e.Calendar),
                        reply.value)

\* A list with a config alert and, after it, a VALARM alert at one offset.
DedupWitness ==
    /\ reply.op = "DeduplicateAlerts"
    /\ \E i, k \in 1..Len(query.alerts) :
           /\ i < k
           /\ query.alerts[i].Offset = query.alerts[k].Offset
           /\ query.alerts[i].Source = AlertSourceConfig
           /\ query.alerts[k].Source = AlertSourceVALARM
    /\ Len(reply.value) = 1

\* The alert set of an event under the calendars of a run.
AlertsUnder(cals, e) ==
    DeduplicateAlerts(e.IntrinsicAlerts \o
                      (IF e.Calendar \in DOMAIN cals THEN cals[e.Calendar].AutomaticAlerts
                       ELSE <<>>))

\* C15: once the automatic alerts of a calendar were updated to a list, every
\* alert computation for the events the calendar owns uses the list, the
\* next CheckAlerts included: GetAllAlerts returns it, and CheckAlerts asks
\* for no offset outside it.
UpdatedAlertsUsed ==
    /\ \A id \in 1..Len(heap) : GetAllAlerts(heap[id]) = AlertsUnder(calendars, heap[id])
    /\ \A i \in 1..Len(runs) :
           runs[i].calendars # CalendarsOf(directoryConfigs) =>
               \A k \in 1..Len(runs[i].requests) :
                   runs[i].requests[k].AlertOffset \in
                       AlertOffsets(AlertsUnder(runs[i].calendars,
                                                heap[runs[i].requests[k].Event]))

\* C16: a tick that finds more than the gap threshold between last_alert_tick
\* and now hands the gap to catch-up: the gap is detected for the tick, and
\* CheckAlerts emits none of its occurrences as normal alerts.
GapTickCatchesUp ==
    (pc = "send" /\ hasStateManager /\ wakeupHandling.Enable
        /\ tickNow - tickLast > WakeupThreshold) =>
            /\ gap = <<tickLast, tickNow>>
            /\ alertRequests = <<>>

\* The occurrences catch-up sent.
CaughtUp == { OccurrenceKey(heap, missedAlerts[i]) : i \in 1..Len(missedAlerts) }

\* C17: once catch-up has sent a missed occurrence, the state of its event
\* at its offset is sent, and no tick emits the occurrence again.
CatchUpMarksSent ==
    /\ \A i \in 1..Len(missedAlerts) :
           GetAlertState(heap[missedAlerts[i].Event], missedAlerts[i].AlertOffset)
               = AlertSent
    /\ \A r \in emitted : OccurrenceKey(heap, r) \notin CaughtUp

\* C18: under the policy skip no alert whose alert time lies in the detected
\* gap reaches the notifier, from catch-up or from a later tick.
SkipSendsNothing ==
    (gap # NoGap /\ wakeupHandling.MissedEventPolicy = "skip") =>
        \A k \in notified : ~(k[2] - k[3] > gap[1] /\ k[2] - k[3] <= gap[2])

\* The event of an aggregate request, which stands for no stored event.
SyntheticEvent == 0

\* The requests catch-up computes before the policy is applied.
MissedBeforePolicy ==
    CheckMissedAlerts(heap, events, gap[1], gap[2],
                      [wakeupHandling EXCEPT !.MissedEventPolicy = "all"], elapsed)

\* C19: under the policy summary, catch-up emits one aggregate request when
\* the missed occurrences are more than summary_threshold, and every missed
\* occurrence otherwise.
SummaryAggregates ==
    (gap # NoGap /\ pc = "wait" /\ clock = gap[2] /\ emitted = {}
        /\ wakeupHandling.MissedEventPolicy = "summary") =>
            IF Len(MissedBeforePolicy) > wakeupHandling.SummaryThreshold
            THEN /\ Len(missedAlerts) = 1
                 /\ missedAlerts[1].Event = SyntheticEvent
            ELSE missedAlerts = MissedBeforePolicy

\* C20: catch-up emits no request whose alert time is earlier than
\* replay_start = max(last_alert_tick, now - max_missed_days).
ReplayStartRespected ==
    gap # NoGap =>
        \A i \in 1..Len(missedAlerts) :
            AlertTimeOf(missedAlerts[i])
                >= Max(gap[1], gap[2] - wakeupHandling.MaxMissedDays * Day)


StateFileComplete == fs.path.kind # "partial"

\* The last call of the log.
LastCall == saveLog[Len(saveLog)]

\* C25: once Load has returned after it found the state file missing or not
\* decodable, last_alert_tick is the time of the call, and the state file is a
\* valid one that holds it.
LoadSeedsNow ==
    (saveLog # <<>> /\ savePc = "idle" /\ LastCall.op = "Load"
        /\ LastCall.found # "json") =>
            /\ lastAlertTick = LastCall.now
            /\ ~Unmarshal(fs.path).err
            /\ Unmarshal(fs.path).state = DaemonState(LastCall.now, stateVersion)

\* Load has returned after it found bytes that are not JSON.
LoadSeedsNowWitness ==
    /\ saveLog # <<>> /\ savePc = "idle" /\ LastCall.op = "Load"
    /\ LastCall.found = "garbage"
    /\ fs.path.kind = "json"

\* C26: saving, loading and saving again is a fixed point: the second save
\* writes the last_alert_tick and the version that the first wrote.
SaveLoadSaveFixed ==
    \A i \in 1..(Len(saveLog) - 2) :
        (saveLog[i].op = "Save" /\ saveLog[i + 1].op = "Load"
            /\ saveLog[i + 2].op = "Save") =>
                saveLog[i + 2].data = saveLog[i].data


\* C23: on shutdown the tick timer is stopped, the tick in flight finishes and
\* the queued alert batches are flushed to the notifier before the state is
\* persisted: when Stop saves the state, run has stopped its timer, no tick
\* is in flight and no batch is queued.
ShutdownOrder ==
    stopSnap.saved =>
        /\ stopSnap.timerStopped
        /\ ~stopSnap.inFlight
        /\ stopSnap.queued = 0


\* The stored events a file produced.
ProducedBy(f) == { uid \in DOMAIN events : uid \in DOMAIN origin /\ origin[uid] = f }

\* C27: once a change of a file has been processed, the stored events the
\* file produced are exactly the VEVENTs the file holds now: none for a
\* deleted file, and none that was removed from a modified file.
StoredMatchesFile ==
    \A f \in WatchFiles :
        ProducedBy(f) = IF f \in DOMAIN files THEN files[f] ELSE {}

\* C28: delete_by_file(f) removes every event the file produced, also when
\* the file holds several VEVENTs, and removes no event of another file.
DeleteByFileExact ==
    [][\A f \in WatchFiles :
          StoreDeleteByFile(f) =>
              \A uid \in DOMAIN events :
                  uid \in DOMAIN events' <=> uid \notin ProducedBy(f)]_vars

\* The UID is in a bucket of the day index.
InBuckets(idx, h, uid) ==
    \E d \in DOMAIN idx : \E i \in 1..Len(idx[d]) : h[idx[d][i]].UID = uid

\* C29: after delete_event(uid) or delete_by_file(f) the removed UID is absent
\* from the UID map, from the event index of every calendar, from every
\* bucket of the day index and from both file maps.
RemovedUidAbsent ==
    [][\A uid \in DOMAIN events \ DOMAIN events' :
          /\ \A p \in DOMAIN calendarEvents' : uid \notin calendarEvents'[p]
          /\ ~InBuckets(dailyIndex', heap', uid)
          /\ uid \notin DOMAIN uidToFile'
          /\ \A f \in DOMAIN fileToUID' : fileToUID'[f] # uid]_vars


\* The instant of the daily rule with the base time on the day of date.
InstantOn(date, baseTime) == Truncate(date, Day) + (baseTime % Day)

\* until is an instant of the rule of the call: a whole number of interval
\* steps after the base time, and not excluded.
UntilIsInstant ==
    /\ query.rec.Until # NoUntil
    /\ query.rec.Until >= query.baseTime
    /\ (query.rec.Until - query.baseTime) % (query.rec.Interval * Day) = 0

\* C30: OccursOn, OccurredWithin and NextOccurrence of a recurrence with an
\* until never yield an instant strictly after until (for OccursOn: the
\* instant of the rule on the day it reports), and they do yield the instant
\* of the rule that equals until when the call asks for it.
UntilInclusive ==
    /\ (reply.op = "DailyRecurrence.OccursOn" /\ query.rec.Until # NoUntil) =>
           /\ reply.value => InstantOn(query.date, query.baseTime) <= query.rec.Until
           /\ (UntilIsInstant /\ Truncate(query.date, Day) = Truncate(query.rec.Until, Day))
                  => reply.value
    /\ (reply.op = "DailyRecurrence.OccurredWithin" /\ query.rec.Until # NoUntil) =>
           /\ \A i \in 1..Len(reply.value) : reply.value[i] <= query.rec.Until
           /\ (UntilIsInstant /\ query.rec.Until >= query.start
                   /\ query.rec.Until <= query.end
                   /\ query.rec.Until \notin query.exDates)
                  => \E i \in 1..Len(reply.value) : reply.value[i] = query.rec.Until
    /\ (reply.op = "DailyRecurrence.NextOccurrence" /\ query.rec.Until # NoUntil) =>
           /\ \A i \in 1..Len(reply.value) : reply.value[i] <= query.rec.Until
           /\ (UntilIsInstant /\ query.rec.Until > query.after
                   /\ query.rec.Until - query.after <= query.rec.Interval * Day
                   /\ query.rec.Until \notin query.exDates)
                  => reply.value = <<query.rec.Until>>


\* C31: for an event whose rule has a count N, OccurrencesWithin yields at
\* most N times the number of the event's alerts over any range.
CountBoundsOccurrences ==
    (reply.op = "OccurrencesWithin" /\ query.e.Recurrence.Count # NoCount) =>
        Cardinality(reply.value)
            <= query.e.Recurrence.Count * Len(GetAllAlerts(query.e))


\* The rule, the base time and the excluded instants of a call on a
\* recurrence, as an event.
QueryRule == [StartTime |-> query.baseTime, Recurrence |-> query.rec,
              ExDates |-> query.exDates]

\* C32: OccurredWithin, NextOccurrence and the event's eventOccursOn yield an
\* instant if and only if it is an instant of the rule that is not excluded:
\* OccurredWithin returns the instants of the range that are not excluded,
\* NextOccurrence the first one after the instant asked about, and
\* eventOccursOn holds on the days that have one.
ExDateExact ==
    /\ reply.op = "DailyRecurrence.OccurredWithin" =>
           SeqToSet(reply.value)
               = { t \in query.start..query.end : IsOccurrence(QueryRule, t) }
    /\ reply.op = "DailyRecurrence.NextOccurrence" =>
           \A t \in (query.after + 1)..((CallDays + 2) * Day) :
               (IsOccurrence(QueryRule, t)
                   /\ \A s \in (query.after + 1)..(t - 1) : ~IsOccurrence(QueryRule, s))
                       => reply.value = <<t>>
    /\ reply.op = "eventOccursOn" =>
           (reply.value <=> OccursWithin(query.e, query.date, query.date + Day - 1))


\* C33: the safety caps cut no expansion short: NextOccurrence of a daily
\* rule without an end returns an instant of the rule after the one asked
\* about, however many instants are excluded, and OccurredWithin returns
\* every instant of its range.
CapNeverTruncates ==
    /\ (reply.op = "DailyRecurrence.NextOccurrence" /\ query.rec.Until = NoUntil
           /\ query.rec.Count = NoCount) =>
           /\ reply.value # <<>>
           /\ reply.value[1] > query.after
           /\ IsOccurrence(QueryRule, reply.value[1])
    /\ reply.op \in {"DailyRecurrence.OccurredWithin"} =>
           \A t \in query.start..query.end :
               IsOccurrence(QueryRule, t) => \E i \in 1..Len(reply.value) : reply.value[i] = t


\* C34: every occurrence of a weekly event lies at the time of day of the
\* start of the event, and OccurrencesWithin over a range of weeks yields
\* exactly the (event time, offset) pairs of the occurrences whose alert
\* time lies in the range.
WeeklyKeepsTimeOfDay ==
    (reply.op = "OccurrencesWithin" /\ query.e.Recurrence.Freq = FreqWeekly) =>
        /\ \A o \in reply.value : o.EventTime % Day = query.e.StartTime % Day
        /\ { <<o.EventTime, o.Offset>> : o \in reply.value }
               = DuePairs(query.e, query.start, query.end)


\* Two calls of SendNotification are for the same request.
SameRequest(a, b) == a.batch = b.batch /\ a.index = b.index

\* C35: a call of SendNotification that fails is followed by exactly one
\* more call for the same request, after which the request is dropped; the
\* alert of a request whose notification failed stays sent.
RetryOnceThenDiscard ==
    \A i \in 1..Len(sends) :
        sends[i].err =>
            /\ sends[i].state = AlertSent
            /\ (i = 1 \/ ~SameRequest(sends[i - 1], sends[i])) =>
                   (i < Len(sends) /\ SameRequest(sends[i], sends[i + 1]))
            /\ ~(i > 2 /\ SameRequest(sends[i - 1], sends[i])
                       /\ SameRequest(sends[i - 2], sends[i]))


\* C36: every request that AdvancedAlertScheduler.CheckAlerts skips because of
\* its alert history is for an occurrence (uid, event time, offset) for which a
\* request was returned before.
MemoOnlyDuplicates == \A s \in suppressed : s.before


\* The loops of the manager that have not returned.
RunningLoops == { i \in DOMAIN loops : loops[i].state = "running" }

\* C37: at most one loop of a manager runs at any time; Start on a running
\* manager returns an error and launches no loop, and Stop on a manager that
\* is not running returns no error and changes nothing.
OneTickLoop ==
    /\ Cardinality(RunningLoops) <= 1
    /\ (lastCall.op = "Start" /\ lastCall.wasRunning) =>
           (lastCall.err /\ ~lastCall.launched)
    /\ (lastCall.op = "Stop" /\ ~lastCall.wasRunning) =>
           (~lastCall.err /\ ~lastCall.closed)

\* C38: no run of Start and Stop calls panics: neither the stop channel nor
\* the alert channel is closed twice, and nothing is sent on a closed channel.
StartStopNeverPanics == panics = {}


\* C39: a call of GetEventsForDay that has returned, whatever other calls
\* ran meanwhile, returned exactly the stored events that OccursOn reports
\* for its date.
GetEventsForDayExact ==
    \A i \in DOMAIN getters :
        getters[i].pc = "done" =>
            SeqToSet(getters[i].result) = SeqToSet(getters[i].occurring)


\* C40: fileToUID and uidToFile are inverses of each other, and every UID
\* either of them mentions is a key of the UID map.
FileMapsInverse ==
    /\ \A f \in DOMAIN fileToUID :
           /\ fileToUID[f] \in DOMAIN uidToFile
           /\ uidToFile[fileToUID[f]] = f
           /\ fileToUID[f] \in DOMAIN events
    /\ \A u \in DOMAIN uidToFile :
           /\ uidToFile[u] \in DOMAIN fileToUID
           /\ fileToUID[uidToFile[u]] = u
           /\ u \in DOMAIN events

=============================================================================
